---- MODULE Spec2Model ----
(***************************************************************************)
(* State-machine model of the A6000 monitor web application:               *)
(*   - App            (src/types.ts): recording session, shot list,        *)
(*                    Magic Snap flag, media streams                       *)
(*   - AudioMonitor   (src/components/ControlPanel.tsx): audio input       *)
(*                    initialisation, per-frame draw loop, clap detector   *)
(*   - LiveView       (src/components/LiveView.tsx): overlays, grid and    *)
(*                    the chroma key pass over the canvas pixels           *)
(*   - Teleprompter   (src/unnamed/part_001): voice activity, speech       *)
(*                    recognition session, script alignment cursor         *)
(*                                                                         *)
(* React function components re-create their handlers on every render.     *)
(* A handler that is stored outside React (a requestAnimationFrame loop,   *)
(* a MediaRecorder event handler, a SpeechRecognition event handler) keeps *)
(* the state values of the render that created it.  Such a handler is      *)
(* modelled with an explicit snapshot record of the values it captured.    *)
(* Handlers wired through JSX props (buttons) always see the current       *)
(* state.                                                                  *)
(***************************************************************************)
EXTENDS Integers, Sequences, FiniteSets, TLC

(***************************************************************************)
(* Bounds of the model                                                     *)
(***************************************************************************)
MaxTime == 1880          \* the clock stops advancing here
MaxInits == 2            \* calls of AudioMonitor.initAudio
MaxRecorders == 2        \* MediaRecorder objects created
MaxShots == 2            \* shots added to the shot list
MaxRecognitions == 1     \* SpeechRecognition objects created
MaxVoiceTime == 2200     \* the clock stops here in the voice activity runs
MaxTimers == 2           \* timer ids that the timeout step looks at
MaxSnapTime == 1480      \* the clock stops here in the Magic Snap recording runs
MaxFallbackTime == 1600  \* the clock stops here in the runs without SpeechRecognition
MaxTeardownTime == 1160  \* the clock stops here in the teardown runs
MaxShotTime == 1002      \* the clock stops here in the shot list runs
MaxDuration == 3         \* seconds the duration counter is followed
MaxChunks == 3           \* dataavailable events of all MediaRecorders together

(***************************************************************************)
(* Program constants                                                       *)
(***************************************************************************)
ClapPeakNum == 6         \* peak > 0.6, numerator over 10
ClapDebounceMs == 100
ClapWindowMs == 800

Epoch == 1000            \* first value of Date.now(); any value >= ClapWindowMs
                         \* behaves like the real clock (about 1.7e12)
ClapDeltas == {80, 480}
SnapDeltas == {480}
RecDeltas == {880}
ShotDeltas == {1}
ShotListNames == { <<"I", " ", "S">>, <<"B">> }
PeakSamples == {76, 77}   \* max |byte - 128| of a frame, 0..128
ShotNames == { <<"I", " ", "S">> }

searchWindow == 50
VolumeSilenceMs == 600
SpeechSilenceMs == 1000
frequencyBinCount == 128   \* fftSize / 2

VoiceDeltas == {300}

\* bytes of the pixels of a video frame
Reds == {10, 67, 100, 150}
Greens == {100, 101, 150, 160, 200}
Blues == {10, 100, 150}
Alphas == {0, 128, 255}
Pixels == { <<r, g, b, a>> : r \in Reds, g \in Greens, b \in Blues, a \in Alphas }
VideoFrames ==
  Pixels \cup { <<10, 200, 10, 255>> \o px : px \in Pixels }
         \cup { <<150, 160, 150, 255>> \o px : px \in Pixels }
GreenPixel == <<10, 200, 10, 255>>
GhostFrames == {1}
LutPresets == {"none", "bw"}            \* two of the five presets
Sensitivities == {20, 100}          \* slider range 1..100
Sums == {1920, 1921, 6017}          \* sum of the 128 frequency bytes, 0..32640
ScriptOneTwo ==
  << "o", "n", "e", " ", "t", "w", "o", " ", "t", "h", "r", "e", "e", " ",
     "t", "w", "o", " ", "f", "o", "u", "r" >>
ScriptAccent == << "o", "n", "e", " ", "p", "i", "ù" >>
Scripts == { ScriptOneTwo, <<"o", "n", "e">>, ScriptAccent }
Transcripts == { <<"t", "h", "r", "e", "e">>, <<"s", "a", "y", " ", "T", "w", "o", " ">>,
                 <<"v", "i", "d", "e", "o">>, <<"p", "i", "ù">> }
ResultEvents ==
  { << [ accepted |-> a, transcript |-> t ] >> : a \in BOOLEAN, t \in Transcripts }
InterimEvent == << [ accepted |-> FALSE, transcript |-> <<"t", "h", "r", "e", "e">> ] >>

VARIABLES
  now,                   \* Date.now()
  \* ---- App state (src/types.ts)
  isRecording,
  mediaRecorderRef,      \* 0 = null, else index into recorders
  recordingTimerRef,     \* TRUE iff an interval id is stored
  recordingDuration,
  intervals,             \* number of active intervals created by startRecording
  videoStream,           \* 0 = null, else a stream id
  audioStream,
  shots,                 \* sequence of Shot records
  activeShotId,          \* 0 = null
  isAudioTriggerActive,
  \* ---- platform objects created by App
  recorders,             \* MediaRecorder objects with their handlers' captures;
                         \* after is the recorders whose stop task was queued
                         \* when it started;
                         \* nData counts its dataavailable events; chunks is
                         \* history: the non-empty data it has delivered;
                         \* error is history: it has fired its error event;
                         \* stoppedWith is history, kept until the stop event
                         \* is handled: the shot list and selection at the
                         \* moment the recorder stopped
  download,              \* file name of the last download handed to the browser
  chunksRef,             \* chunksRef.current: the buffered Blobs, each named by
                         \* its recorder and its number among that recorder's
  blob,                  \* the parts of the Blob of the last download
  lastEvent,             \* what the last step did to the recording session
  \* ---- AudioMonitor state (src/components/ControlPanel.tsx)
  permission,
  streamRef,
  pendingInits,          \* initAudio calls waiting for getUserMedia
  loops,                 \* scheduled draw loops, each with its captures
  lastClapTimeRef,
  nInits,
  frame,                 \* the last step, if a draw frame: "quiet" (peak <= 0.6),
                         \* "loud" (peak > 0.6) or "fired" (it called onTrigger);
                         \* "none" for any other step
  ranUpTo,               \* draw loops 1..ranUpTo have run their frame at this clock value
  lastTransientTime,     \* history: time of the last frame that the detector
                         \* registered (stored its time or fired), 0 if none
  \* ---- production tools (src/types.ts) and LiveView (src/components/LiveView.tsx)
  activeLut,
  ghostImage,            \* 0 = null, else the captured frame
  isGhostVisible,
  isChromaActive,
  activeGuide,
  showGrid,
  requestRef,            \* TRUE iff a processFrame callback is scheduled
  canvasData,            \* the bytes of the ImageData last put on the canvas
  videoFrame,            \* history: the bytes getImageData returned for it
  toggledFrom,           \* history: ViewState before the last step, when that
                         \* step was an overlay toggle
  settings,              \* CameraSettings of App; aperture in tenths of a stop
  \* ---- lifecycle of the capture components
  mounted,               \* App with LiveView and AudioMonitor is mounted
  camera,                \* startVideo of LiveView: "disconnected" (not called),
                         \* "acquiring" (awaiting getUserMedia), "live",
                         \* "failed", or "abandoned" (acquired after the cleanup)
  isActive,              \* the isActive flag of the camera effect
  cameraTracks,          \* tracks of the camera stream: "none", "live", "stopped"
  errorType,             \* LiveView state, "null" or the class of the failure
  cameraError,           \* history: err.name of the rejected getUserMedia, ""
                         \* if none
  stoppedStreams,        \* audio streams whose tracks have been stopped
  animationFrameRef,     \* the draw loop whose frame callback was requested
                         \* last, 0 if none
  cancelled,             \* draw loops whose frame callback has been cancelled
  lateReport,            \* history: onStreamReady was called after the teardown
  \* ---- Teleprompter state (src/unnamed/part_001)
  showTeleprompter,      \* App state: the Teleprompter is mounted
  text,                  \* sequence of characters
  isEditing,
  isListening,
  mode,
  voiceActive,
  sensitivity,
  currentWordIndex,
  silenceTimerRef,       \* 0 = null, else a timer id
  recognitionRef,        \* 0 = null, else index into recognitions
  \* ---- platform objects created by the Teleprompter
  timers,                \* pending timeouts: records [id, due]
  analyzer,              \* the analyze loop of the volume effect with its captures
  recognitions,          \* SpeechRecognition objects with their handlers' captures
  speechEffect,          \* the recognition the last run of the speech effect
                         \* created (its cleanup stops it), 0 if none
  Recognition,           \* the browser offers SpeechRecognition
  heard,                 \* the last step, if it handled a result event of a
                         \* recognition of the mounted Teleprompter: the results
                         \* of the event; <<>> for any other step
  dataSum,               \* the last step, if it analysed a frame: the sum of the
                         \* frequency bytes; -1 for any other step
  lastAboveTime          \* history: time of the last analysed frame whose
                         \* average was above the threshold, 0 if none

appVars == <<isRecording, mediaRecorderRef, recordingTimerRef, recorders,
             recordingDuration, intervals>>
shotVars == <<shots, activeShotId>>
chunkVars == <<chunksRef, blob>>
toolVars == <<activeLut, ghostImage, isGhostVisible, isChromaActive, activeGuide,
              showGrid>>
viewVars == <<toolVars, requestRef, canvasData, videoFrame, toggledFrom>>
srcVars == <<videoStream, audioStream>>
lifeVars == <<mounted, camera, isActive, cameraTracks, errorType, cameraError,
              stoppedStreams,
              animationFrameRef, cancelled, lateReport>>
monVars == <<permission, streamRef, pendingInits, loops, lastClapTimeRef, nInits,
             lastTransientTime, ranUpTo>>
promptVars == <<showTeleprompter, text, isEditing, isListening, mode, voiceActive,
                sensitivity, currentWordIndex, silenceTimerRef, recognitionRef,
                timers, analyzer, recognitions, speechEffect, Recognition,
                lastAboveTime>>
vars == <<now, appVars, shotVars, srcVars, download, isAudioTriggerActive, monVars,
          lastEvent, frame, promptVars, dataSum, heard, chunkVars, viewVars,
          lifeVars, settings>>

\* a step outside the production tools and the chroma key loop
toolsUntouched ==
  /\ toggledFrom' = <<>>
  /\ UNCHANGED <<toolVars, requestRef, canvasData, videoFrame>>
  /\ UNCHANGED settings

\* a step outside the production tools and the LiveView that neither
\* acquires nor releases anything
viewUntouched ==
  /\ toolsUntouched
  /\ UNCHANGED lifeVars

(***************************************************************************)
(* Render snapshot: the values a handler of the current render closes over *)
(***************************************************************************)
Snapshot ==
  [ isAudioTriggerActive |-> isAudioTriggerActive,
    isRecording |-> isRecording,
    videoStream |-> videoStream,
    audioStream |-> audioStream,
    shots |-> shots,
    activeShotId |-> activeShotId ]

(***************************************************************************)
(* Recording file name                                                     *)
(***************************************************************************)
RECURSIVE ReplaceWs(_, _)
\* name.replace(/\s+/g, '_'): every maximal run of white space becomes one '_'
ReplaceWs(name, inRun) ==
  IF name = <<>> THEN <<>>
  ELSE IF Head(name) = " "
       THEN (IF inRun THEN <<>> ELSE <<"_">>) \o ReplaceWs(Tail(name), TRUE)
       ELSE <<Head(name)>> \o ReplaceWs(Tail(name), FALSE)

FindShot(list, id) ==
  \* Array.prototype.find: index of the first shot with that id, 0 if none
  IF \E i \in 1..Len(list) : list[i].id = id
  THEN CHOOSE i \in 1..Len(list) :
         /\ list[i].id = id
         /\ \A j \in 1..(i-1) : list[j].id # id
  ELSE 0

NoFile == [ kind |-> "none", base |-> <<>>, n |-> 0 ]

TakeFilename(shot) ==
  [ kind |-> "take", base |-> ReplaceWs(shot.name, FALSE), n |-> shot.take ]

TimestampFilename(t) ==
  \* YYYYMMDD_HHMM of the local time: the clock at minute resolution
  [ kind |-> "A6000_REC", base |-> <<>>, n |-> t \div 60000 ]

(***************************************************************************)
(* App: recording session                                                  *)
(***************************************************************************)
\* the recorders whose stop() has been called (or that failed) and whose stop
\* event has not been dispatched yet
StopsPending(recs) == { q \in 1..Len(recs) : recs[q].stopPending }

\* startRecording with the recorder registered before recorder.start is called
startRecordingRegistersBeforeStart(c, throws) ==
  IF c.videoStream = 0 /\ c.audioStream = 0
  THEN /\ lastEvent' = "alert_no_source"
       /\ UNCHANGED <<isRecording, mediaRecorderRef, recordingTimerRef, recorders,
                      recordingDuration, intervals>>
  ELSE /\ Len(recorders) < MaxRecorders
       /\ recorders' = Append(recorders,
                         [ state |-> IF throws THEN "inactive" ELSE "recording",
                           stopPending |-> FALSE,
                           videoStream |-> c.videoStream,
                           audioStream |-> c.audioStream,
                           shots |-> c.shots,
                           activeShotId |-> c.activeShotId,
                           stoppedWith |-> <<>>,
                           after |-> StopsPending(recorders),
                           nData |-> 0,
                           chunks |-> <<>>,
                           error |-> FALSE ])
       /\ mediaRecorderRef' = Len(recorders) + 1
       /\ isRecording' = ~throws
       /\ recordingTimerRef' = ~throws
       /\ recordingDuration' = IF throws THEN recordingDuration ELSE 0
       /\ intervals' = IF throws THEN intervals
                       ELSE intervals - (IF recordingTimerRef THEN 1 ELSE 0) + 1
       /\ lastEvent' = IF throws THEN "alert_start_failed" ELSE "started"

\* startRecording as defined in the render with snapshot c; throws is the
\* platform's choice of rejecting the MediaRecorder construction or start
startRecording(c, throws) ==
  IF c.videoStream = 0 /\ c.audioStream = 0
  THEN /\ lastEvent' = "alert_no_source"
       /\ UNCHANGED <<isRecording, mediaRecorderRef, recordingTimerRef, recorders,
                      recordingDuration, intervals>>
  ELSE IF throws
  THEN /\ lastEvent' = "alert_start_failed"
       /\ UNCHANGED <<isRecording, mediaRecorderRef, recordingTimerRef, recorders,
                      recordingDuration, intervals>>
  ELSE /\ Len(recorders) < MaxRecorders
       /\ recorders' = Append(recorders,
                         [ state |-> "recording",
                           stopPending |-> FALSE,
                           videoStream |-> c.videoStream,
                           audioStream |-> c.audioStream,
                           shots |-> c.shots,
                           activeShotId |-> c.activeShotId,
                           stoppedWith |-> <<>>,
                           after |-> StopsPending(recorders),
                           nData |-> 0,
                           chunks |-> <<>>,
                           error |-> FALSE ])
       /\ mediaRecorderRef' = Len(recorders) + 1
       /\ isRecording' = TRUE
       /\ recordingTimerRef' = TRUE
       /\ recordingDuration' = 0
       /\ intervals' = intervals - (IF recordingTimerRef THEN 1 ELSE 0) + 1
       /\ lastEvent' = "started"

\* stopRecording that forgets the id of the interval without clearing it
stopRecordingLeavesInterval ==
  /\ recorders' =
       IF mediaRecorderRef # 0 /\ recorders[mediaRecorderRef].state # "inactive"
       THEN [recorders EXCEPT ![mediaRecorderRef].state = "inactive",
                              ![mediaRecorderRef].stopPending = TRUE,
                              ![mediaRecorderRef].stoppedWith = <<shots, activeShotId>>]
       ELSE recorders
  /\ isRecording' = FALSE
  /\ recordingTimerRef' = FALSE
  /\ lastEvent' = "stopped"
  /\ UNCHANGED <<mediaRecorderRef, recordingDuration, intervals>>

stopRecording ==
  /\ recorders' =
       IF mediaRecorderRef # 0 /\ recorders[mediaRecorderRef].state # "inactive"
       THEN [recorders EXCEPT ![mediaRecorderRef].state = "inactive",
                              ![mediaRecorderRef].stopPending = TRUE,
                              ![mediaRecorderRef].stoppedWith = <<shots, activeShotId>>]
       ELSE recorders
  /\ isRecording' = FALSE
  /\ recordingTimerRef' = FALSE
  /\ intervals' = intervals - (IF recordingTimerRef THEN 1 ELSE 0)
  /\ lastEvent' = "stopped"
  /\ UNCHANGED <<mediaRecorderRef, recordingDuration>>

handleToggleRecord(c, throws) ==
  IF c.isRecording THEN stopRecording ELSE startRecording(c, throws)

\* one call of the interval callback of startRecording, a second after the
\* start or after the previous call
tick ==
  /\ intervals > 0
  /\ recordingDuration < MaxDuration
  /\ recordingDuration' = recordingDuration + 1
  /\ UNCHANGED <<isRecording, mediaRecorderRef, recordingTimerRef, recorders,
                 intervals>>
  /\ lastEvent' = "tick"
  /\ frame' = "none"
  /\ dataSum' = -1
  /\ heard' = <<>>
  /\ UNCHANGED promptVars
  /\ UNCHANGED chunkVars
  /\ viewUntouched
  /\ UNCHANGED <<now, shotVars, srcVars, download, isAudioTriggerActive, monVars>>

\* REC button of the ControlPanel or of the Teleprompter: handler of the
\* current render
ClickRecord ==
  /\ \E throws \in BOOLEAN : handleToggleRecord(Snapshot, throws)
  /\ frame' = "none"
  /\ dataSum' = -1
  /\ heard' = <<>>
  /\ UNCHANGED promptVars
  /\ UNCHANGED chunkVars
  /\ viewUntouched
  /\ UNCHANGED <<now, shotVars, srcVars, download, isAudioTriggerActive, monVars>>

\* stop event of recorder r, dispatched after the stop events that were
\* queued before r started: file name from the shot list captured at start
RecorderOnStop(r) ==
  /\ r \in 1..Len(recorders)
  /\ recorders[r].stopPending
  /\ recorders[r].after \cap StopsPending(recorders) = {}
  /\ LET i == FindShot(recorders[r].shots, recorders[r].activeShotId) IN
       IF i # 0
       THEN LET activeShot == recorders[r].shots[i] IN
            /\ download' = TakeFilename(activeShot)
            /\ shots' = [k \in 1..Len(shots) |->
                           IF shots[k].id = activeShot.id
                           THEN [shots[k] EXCEPT !.take = @ + 1]
                           ELSE shots[k]]
       ELSE /\ download' = TimestampFilename(now)
            /\ shots' = shots
  /\ recorders' = [recorders EXCEPT ![r].stopPending = FALSE,
                                   ![r].stoppedWith = <<>>]
  /\ blob' = chunksRef
  /\ chunksRef' = <<>>
  /\ viewUntouched
  /\ lastEvent' = "saved"
  /\ frame' = "none"
  /\ dataSum' = -1
  /\ heard' = <<>>
  /\ UNCHANGED promptVars
  /\ UNCHANGED <<now, isRecording, mediaRecorderRef, recordingTimerRef,
                 recordingDuration, intervals,
                 activeShotId, srcVars, isAudioTriggerActive, monVars>>

RECURSIVE DataEvents(_)
\* the number of dataavailable events so far
DataEvents(recs) ==
  IF recs = <<>> THEN 0 ELSE Head(recs).nData + DataEvents(Tail(recs))

\* dataavailable event of recorder r, every second while it records and
\* once more after it has stopped, before its stop event; size is e.data.size.
\* The events of a recorder are tasks queued after the stop tasks that were
\* queued before it started, so they are dispatched after those.
ondataavailable(r, size) ==
  /\ r \in 1..Len(recorders)
  /\ recorders[r].state = "recording" \/ recorders[r].stopPending
  /\ recorders[r].after \cap StopsPending(recorders) = {}
  /\ DataEvents(recorders) < MaxChunks
  /\ LET data == [ recorder |-> r, n |-> recorders[r].nData + 1 ] IN
       IF size > 0
       THEN /\ chunksRef' = Append(chunksRef, data)
            /\ recorders' = [recorders EXCEPT ![r].nData = @ + 1,
                                             ![r].chunks = Append(@, data)]
       ELSE /\ chunksRef' = chunksRef
            /\ recorders' = [recorders EXCEPT ![r].nData = @ + 1]
  /\ lastEvent' = "data"
  /\ viewUntouched
  /\ frame' = "none"
  /\ dataSum' = -1
  /\ heard' = <<>>
  /\ UNCHANGED promptVars
  /\ UNCHANGED <<now, isRecording, mediaRecorderRef, recordingTimerRef,
                 recordingDuration, intervals, blob,
                 shotVars, srcVars, download, isAudioTriggerActive, monVars>>

\* an error handler that stops the recorder and leaves the React state and
\* an error handler that leaves the session state and the duration timer alone
RecorderOnErrorOnlyStopsRecorder(r) ==
  /\ r \in 1..Len(recorders)
  /\ recorders[r].state = "recording"
  /\ recorders' = [recorders EXCEPT ![r].state = "inactive",
                                   ![r].error = TRUE,
                                   ![r].stopPending = TRUE,
                                   ![r].stoppedWith = <<shots, activeShotId>>]
  /\ lastEvent' = "error_stopped"
  /\ frame' = "none"
  /\ dataSum' = -1
  /\ heard' = <<>>
  /\ UNCHANGED promptVars
  /\ UNCHANGED chunkVars
  /\ viewUntouched
  /\ UNCHANGED <<now, isRecording, recordingTimerRef, recordingDuration, intervals,
                 mediaRecorderRef, shotVars,
                 srcVars, download, isAudioTriggerActive, monVars>>

\* error event of recorder r: the platform has made r inactive and will
\* deliver its stop event; the handler calls stopRecording
RecorderOnError(r) ==
  /\ r \in 1..Len(recorders)
  /\ recorders[r].state = "recording"
  /\ LET afterError == [recorders EXCEPT ![r].state = "inactive",
                                         ![r].error = TRUE,
                                         ![r].stopPending = TRUE,
                                         ![r].stoppedWith = <<shots, activeShotId>>] IN
       recorders' =
         IF mediaRecorderRef # 0 /\ afterError[mediaRecorderRef].state # "inactive"
         THEN [afterError EXCEPT ![mediaRecorderRef].state = "inactive",
                                 ![mediaRecorderRef].stopPending = TRUE,
                                 ![mediaRecorderRef].stoppedWith = <<shots, activeShotId>>]
         ELSE afterError
  /\ isRecording' = FALSE
  /\ recordingTimerRef' = FALSE
  /\ intervals' = intervals - (IF recordingTimerRef THEN 1 ELSE 0)
  /\ UNCHANGED recordingDuration
  /\ lastEvent' = "error_stopped"
  /\ frame' = "none"
  /\ dataSum' = -1
  /\ heard' = <<>>
  /\ UNCHANGED promptVars
  /\ UNCHANGED chunkVars
  /\ viewUntouched
  /\ UNCHANGED <<now, mediaRecorderRef, shotVars, srcVars, download,
                 isAudioTriggerActive, monVars>>

\* LiveView has its camera stream: setIsVideoAvailable(true) and
\* onStreamReady = setVideoStream; the chroma effect of the next render
\* schedules processFrame when the chroma key is on.  This is the camera
\* start from the connection to the resolved getUserMedia with nothing in
\* between
VideoStreamReady ==
  /\ mounted
  /\ camera = "disconnected"
  /\ camera' = "live"
  /\ isActive' = TRUE
  /\ cameraTracks' = "live"
  /\ errorType' = "null"
  /\ UNCHANGED <<mounted, cameraError, stoppedStreams, animationFrameRef, cancelled,
                 lateReport>>
  /\ videoStream = 0
  /\ videoStream' = 100
  /\ requestRef' = isChromaActive
  /\ toggledFrom' = <<>>
  /\ frame' = "none"
  /\ lastEvent' = "none"
  /\ dataSum' = -1
  /\ heard' = <<>>
  /\ UNCHANGED promptVars
  /\ UNCHANGED chunkVars
  /\ UNCHANGED <<toolVars, canvasData, videoFrame, settings>>
  /\ UNCHANGED <<now, appVars, shotVars, audioStream, download,
                 isAudioTriggerActive, monVars>>

(***************************************************************************)
(* ControlPanel: camera settings                                           *)
(***************************************************************************)
Max(a, b) == IF a >= b THEN a ELSE b
Min(a, b) == IF a <= b THEN a ELSE b

\* what a camera settings step leaves alone
settingsIdle ==
  /\ frame' = "none"
  /\ lastEvent' = "none"
  /\ dataSum' = -1
  /\ heard' = <<>>
  /\ toggledFrom' = <<>>
  /\ UNCHANGED promptVars
  /\ UNCHANGED chunkVars
  /\ UNCHANGED lifeVars
  /\ UNCHANGED <<toolVars, requestRef, canvasData, videoFrame>>
  /\ UNCHANGED <<now, appVars, shotVars, srcVars, download, isAudioTriggerActive,
                 monVars>>

\* the ISO buttons with an upper limit only
adjustISONoFloor(delta) ==
  /\ mounted
  /\ settings' = [settings EXCEPT !.iso = Min(25600, settings.iso + delta)]
  /\ settingsIdle

\* the - and + buttons of the ISO tile: delta is -100 or 100
adjustISO(delta) ==
  /\ mounted
  /\ settings' = [settings EXCEPT !.iso = Max(100, Min(25600, settings.iso + delta))]
  /\ settingsIdle

\* the - and + buttons of the aperture tile: delta is -0.1 or 0.1, here -1 or
\* 1 tenth.  The floating point sum lies within rounding error of a multiple
\* of 0.1 and parseFloat(newVal.toFixed(1)) gives that multiple
adjustAperture(delta) ==
  /\ mounted
  /\ settings' = [settings EXCEPT
                    !.aperture = Max(14, Min(220, settings.aperture + delta))]
  /\ settingsIdle

(***************************************************************************)
(* Lifecycle of the capture components (LiveView camera effect,            *)
(* AudioMonitor [active] effect)                                           *)
(***************************************************************************)
\* what a lifecycle step of LiveView leaves alone
captureIdle ==
  /\ frame' = "none"
  /\ lastEvent' = "none"
  /\ dataSum' = -1
  /\ heard' = <<>>
  /\ toggledFrom' = <<>>
  /\ UNCHANGED promptVars
  /\ UNCHANGED chunkVars
  /\ UNCHANGED <<toolVars, canvasData, videoFrame, settings>>
  /\ UNCHANGED <<now, appVars, shotVars, audioStream, download,
                 isAudioTriggerActive, monVars>>

\* the connection timer of App reaches CONNECTED: the camera effect of LiveView
\* runs and startVideo awaits getUserMedia
Connected ==
  /\ mounted
  /\ camera = "disconnected"
  /\ camera' = "acquiring"
  /\ isActive' = TRUE
  /\ errorType' = "null"
  /\ UNCHANGED <<mounted, cameraTracks, cameraError, stoppedStreams,
                 animationFrameRef, cancelled, lateReport>>
  /\ UNCHANGED <<videoStream, requestRef>>
  /\ captureIdle

\* getUserMedia of startVideo resolves.  After the cleanup the tracks are
\* stopped at once; otherwise the video is marked available and the stream is
\* handed to App (no video element is rendered before that, videoRef.current
\* is null and play() is not called)
VideoAcquired ==
  /\ camera = "acquiring"
  /\ IF isActive
     THEN /\ camera' = "live"
          /\ cameraTracks' = "live"
          /\ videoStream' = 100
          /\ requestRef' = isChromaActive
     ELSE /\ camera' = "abandoned"
          /\ cameraTracks' = "stopped"
          /\ UNCHANGED <<videoStream, requestRef>>
  /\ UNCHANGED <<mounted, isActive, errorType, cameraError, stoppedStreams,
                 animationFrameRef, cancelled, lateReport>>
  /\ captureIdle

CameraErrorNames ==
  {"NotFoundError", "DevicesNotFoundError", "NotAllowedError",
   "PermissionDeniedError", "NotReadableError"}

\* a classification that knows the current error names only
ErrorClassCurrentNames(name) ==
  IF name = "NotFoundError" THEN "device"
  ELSE IF name = "NotAllowedError" THEN "permission"
  ELSE "generic"

\* the class LiveView shows for a rejected getUserMedia
ErrorClass(name) ==
  IF name \in {"NotFoundError", "DevicesNotFoundError"} THEN "device"
  ELSE IF name \in {"NotAllowedError", "PermissionDeniedError"} THEN "permission"
  ELSE "generic"

\* both getUserMedia calls of startVideo reject, the second with err.name = name
VideoFailed(name) ==
  /\ camera = "acquiring"
  /\ camera' = "failed"
  /\ errorType' = IF isActive THEN ErrorClass(name) ELSE errorType
  /\ cameraError' = name
  /\ UNCHANGED <<mounted, isActive, cameraTracks, stoppedStreams, animationFrameRef,
                 cancelled, lateReport>>
  /\ UNCHANGED <<videoStream, requestRef>>
  /\ captureIdle

\* App is unmounted: the cleanup of the camera effect clears isActive, stops
\* the tracks of the stream it holds and cancels requestRef.current; the
\* cleanup of the chroma effect cancels requestRef.current; the cleanup of the
\* [active] effect of AudioMonitor closes the audio context and cancels
\* animationFrameRef.current
Unmount ==
  /\ mounted
  /\ mounted' = FALSE
  /\ isActive' = FALSE
  /\ cameraTracks' = IF camera = "live" THEN "stopped" ELSE cameraTracks
  /\ requestRef' = FALSE
  /\ cancelled' = cancelled \cup (IF animationFrameRef # 0 THEN {animationFrameRef} ELSE {})
  /\ UNCHANGED <<camera, errorType, cameraError, stoppedStreams, animationFrameRef,
                 lateReport>>
  /\ UNCHANGED videoStream
  /\ captureIdle

(***************************************************************************)
(* App: shot list                                                          *)
(***************************************************************************)
handleAddShot(name) ==
  /\ Len(shots) < MaxShots
  /\ shots' = Append(shots, [ id |-> now, name |-> name,
                              completed |-> FALSE, take |-> 1 ])
  /\ activeShotId' = IF activeShotId = 0 THEN now ELSE activeShotId
  /\ frame' = "none"
  /\ lastEvent' = "none"
  /\ dataSum' = -1
  /\ heard' = <<>>
  /\ UNCHANGED promptVars
  /\ UNCHANGED chunkVars
  /\ viewUntouched
  /\ UNCHANGED <<now, appVars, srcVars, download, isAudioTriggerActive, monVars>>

\* deleting a shot without looking at the selection
handleDeleteShotKeepsSelection(id) ==
  /\ \E i \in 1..Len(shots) : shots[i].id = id
  /\ shots' = SelectSeq(shots, LAMBDA s : s.id # id)
  /\ UNCHANGED activeShotId
  /\ frame' = "none"
  /\ lastEvent' = "none"
  /\ dataSum' = -1
  /\ heard' = <<>>
  /\ UNCHANGED promptVars
  /\ UNCHANGED chunkVars
  /\ viewUntouched
  /\ UNCHANGED <<now, appVars, srcVars, download, isAudioTriggerActive, monVars>>

handleDeleteShot(id) ==
  /\ \E i \in 1..Len(shots) : shots[i].id = id
  /\ shots' = SelectSeq(shots, LAMBDA s : s.id # id)
  /\ activeShotId' = IF activeShotId = id THEN 0 ELSE activeShotId
  /\ frame' = "none"
  /\ lastEvent' = "none"
  /\ dataSum' = -1
  /\ heard' = <<>>
  /\ UNCHANGED promptVars
  /\ UNCHANGED chunkVars
  /\ viewUntouched
  /\ UNCHANGED <<now, appVars, srcVars, download, isAudioTriggerActive, monVars>>

handleToggleShotComplete(id) ==
  /\ \E i \in 1..Len(shots) : shots[i].id = id
  /\ shots' = [k \in 1..Len(shots) |->
                 IF shots[k].id = id
                 THEN [shots[k] EXCEPT !.completed = ~@]
                 ELSE shots[k]]
  /\ frame' = "none"
  /\ lastEvent' = "none"
  /\ dataSum' = -1
  /\ heard' = <<>>
  /\ UNCHANGED promptVars
  /\ UNCHANGED chunkVars
  /\ viewUntouched
  /\ UNCHANGED <<now, activeShotId, appVars, srcVars, download,
                 isAudioTriggerActive, monVars>>

onSelectShot(id) ==
  /\ \E i \in 1..Len(shots) : shots[i].id = id
  /\ activeShotId' = id
  /\ frame' = "none"
  /\ lastEvent' = "none"
  /\ dataSum' = -1
  /\ heard' = <<>>
  /\ UNCHANGED promptVars
  /\ UNCHANGED chunkVars
  /\ viewUntouched
  /\ UNCHANGED <<now, shots, appVars, srcVars, download,
                 isAudioTriggerActive, monVars>>

(***************************************************************************)
(* App: Magic Snap switch                                                  *)
(***************************************************************************)
onToggleAudioTrigger ==
  /\ isAudioTriggerActive' = ~isAudioTriggerActive
  /\ frame' = "none"
  /\ lastEvent' = "none"
  /\ dataSum' = -1
  /\ heard' = <<>>
  /\ UNCHANGED promptVars
  /\ UNCHANGED chunkVars
  /\ viewUntouched
  /\ UNCHANGED <<now, appVars, shotVars, srcVars, download, monVars>>

(***************************************************************************)
(* AudioMonitor: audio input and draw loop                                 *)
(***************************************************************************)
\* initAudio of the current render up to its await of getUserMedia; called by
\* the "Enable Audio" button (permission not granted) or by the device
\* selector (permission granted)
initAudio ==
  /\ mounted
  /\ nInits < MaxInits
  /\ nInits' = nInits + 1
  /\ stoppedStreams' = stoppedStreams \cup (IF streamRef # 0 THEN {streamRef} ELSE {})
  /\ pendingInits' = Append(pendingInits, Snapshot)
  /\ frame' = "none"
  /\ lastEvent' = "none"
  /\ dataSum' = -1
  /\ heard' = <<>>
  /\ UNCHANGED promptVars
  /\ UNCHANGED chunkVars
  /\ toolsUntouched
  /\ UNCHANGED <<mounted, camera, isActive, cameraTracks, errorType, cameraError,
                 animationFrameRef, cancelled, lateReport>>
  /\ UNCHANGED <<now, appVars, shotVars, srcVars, download, isAudioTriggerActive,
                 permission, streamRef, loops, lastClapTimeRef, lastTransientTime, ranUpTo>>

\* getUserMedia resolves for the oldest pending initAudio: the stream is
\* published, and draw of the render that called initAudio starts a loop
\* (the loops started earlier keep rescheduling themselves).  initAudio does
\* not ask whether the component is still mounted; the state setters of an
\* unmounted component have no effect
initAudioGranted ==
  /\ pendingInits # <<>>
  /\ streamRef' = nInits - Len(pendingInits) + 1
  /\ IF mounted
     THEN /\ audioStream' = nInits - Len(pendingInits) + 1
          /\ permission' = "granted"
          /\ UNCHANGED lateReport
     ELSE /\ UNCHANGED <<audioStream, permission>>
          /\ lateReport' = TRUE
  /\ loops' = Append(loops, Head(pendingInits))
  /\ animationFrameRef' = Len(loops) + 1
  /\ pendingInits' = Tail(pendingInits)
  /\ frame' = "none"
  /\ lastEvent' = "none"
  /\ dataSum' = -1
  /\ heard' = <<>>
  /\ UNCHANGED promptVars
  /\ UNCHANGED chunkVars
  /\ toolsUntouched
  /\ UNCHANGED <<mounted, camera, isActive, cameraTracks, errorType, cameraError,
                 stoppedStreams, cancelled>>
  /\ UNCHANGED <<now, appVars, shotVars, videoStream, download,
                 isAudioTriggerActive, lastClapTimeRef, nInits, lastTransientTime, ranUpTo>>

\* draw with a fire that stores its own time instead of resetting the
\* timestamp
drawStoresFiringTime(i, peak128) ==
  /\ i \in 1..Len(loops)
  /\ i \notin cancelled
  /\ i > ranUpTo
  /\ ranUpTo' = i
  /\ animationFrameRef' = i
  /\ UNCHANGED loops
  /\ LET c == loops[i] IN
     IF c.isAudioTriggerActive /\ 10 * peak128 > ClapPeakNum * 128
     THEN IF now - lastClapTimeRef > ClapDebounceMs
          THEN IF now - lastClapTimeRef < ClapWindowMs
               THEN /\ \E throws \in BOOLEAN : handleToggleRecord(c, throws)
                    /\ lastClapTimeRef' = now
                    /\ lastTransientTime' = now
                    /\ frame' = "fired"
               ELSE /\ lastClapTimeRef' = now
                    /\ lastTransientTime' = now
                    /\ frame' = "loud"
                    /\ lastEvent' = "none"
                    /\ UNCHANGED appVars
          ELSE /\ frame' = "loud"
               /\ lastEvent' = "none"
               /\ UNCHANGED <<lastClapTimeRef, lastTransientTime, appVars>>
     ELSE /\ frame' = IF 10 * peak128 > ClapPeakNum * 128 THEN "loud" ELSE "quiet"
          /\ lastEvent' = "none"
          /\ UNCHANGED <<lastClapTimeRef, lastTransientTime, appVars>>
  /\ dataSum' = -1
  /\ heard' = <<>>
  /\ UNCHANGED promptVars
  /\ UNCHANGED chunkVars
  /\ toolsUntouched
  /\ UNCHANGED <<mounted, camera, isActive, cameraTracks, errorType, cameraError,
                 stoppedStreams, cancelled, lateReport>>
  /\ UNCHANGED <<now, shotVars, srcVars, download, isAudioTriggerActive,
                 permission, streamRef, pendingInits, nInits>>

\* one animation frame of draw loop i; peak128 = 128 * peak.  A loop runs at most
\* one frame per clock value, and the callbacks of one animation frame run in
\* the order in which the loops were started
draw(i, peak128) ==
  /\ i \in 1..Len(loops)
  /\ i \notin cancelled
  /\ i > ranUpTo
  /\ ranUpTo' = i
  /\ animationFrameRef' = i
  /\ UNCHANGED loops
  /\ LET c == loops[i] IN
     IF c.isAudioTriggerActive /\ 10 * peak128 > ClapPeakNum * 128
     THEN IF now - lastClapTimeRef > ClapDebounceMs
          THEN IF now - lastClapTimeRef < ClapWindowMs
               THEN /\ \E throws \in BOOLEAN : handleToggleRecord(c, throws)
                    /\ lastClapTimeRef' = 0
                    /\ lastTransientTime' = now
                    /\ frame' = "fired"
               ELSE /\ lastClapTimeRef' = now
                    /\ lastTransientTime' = now
                    /\ frame' = "loud"
                    /\ lastEvent' = "none"
                    /\ UNCHANGED appVars
          ELSE /\ frame' = "loud"
               /\ lastEvent' = "none"
               /\ UNCHANGED <<lastClapTimeRef, lastTransientTime, appVars>>
     ELSE /\ frame' = IF 10 * peak128 > ClapPeakNum * 128 THEN "loud" ELSE "quiet"
          /\ lastEvent' = "none"
          /\ UNCHANGED <<lastClapTimeRef, lastTransientTime, appVars>>
  /\ dataSum' = -1
  /\ heard' = <<>>
  /\ UNCHANGED promptVars
  /\ UNCHANGED chunkVars
  /\ toolsUntouched
  /\ UNCHANGED <<mounted, camera, isActive, cameraTracks, errorType, cameraError,
                 stoppedStreams, cancelled, lateReport>>
  /\ UNCHANGED <<now, shotVars, srcVars, download, isAudioTriggerActive,
                 permission, streamRef, pendingInits, nInits>>

AdvanceTime(d, until) ==
  /\ now + d <= until
  /\ now' = now + d
  /\ ranUpTo' = 0
  /\ dataSum' = -1
  /\ heard' = <<>>
  /\ UNCHANGED promptVars
  /\ UNCHANGED chunkVars
  /\ viewUntouched
  /\ UNCHANGED loops
  /\ frame' = "none"
  /\ lastEvent' = "none"
  /\ UNCHANGED <<appVars, shotVars, srcVars, download, isAudioTriggerActive,
                 permission, streamRef, pendingInits, lastClapTimeRef, nInits,
                 lastTransientTime>>

(***************************************************************************)
(* Production tools (src/types.ts) and LiveView                            *)
(* (src/components/LiveView.tsx)                                           *)
(***************************************************************************)
\* what the application shows and does, apart from the clock
ViewState ==
  <<toolVars, requestRef, canvasData, appVars, shotVars, srcVars,
    isAudioTriggerActive, showTeleprompter>>

\* what a production tool or LiveView step leaves alone
viewIdle ==
  /\ frame' = "none"
  /\ dataSum' = -1
  /\ heard' = <<>>
  /\ UNCHANGED promptVars
  /\ UNCHANGED chunkVars
  /\ UNCHANGED lifeVars
  /\ UNCHANGED settings
  /\ UNCHANGED <<now, appVars, shotVars, srcVars, download, isAudioTriggerActive,
                 monVars>>

\* the green screen pass that tests red only
ChromaKeyIgnoresBlue(data) ==
  [ k \in 1..Len(data) |->
      IF /\ k % 4 = 0
         /\ data[k - 2] > 100
         /\ 2 * data[k - 2] > 3 * data[k - 3]
      THEN 0
      ELSE data[k] ]

\* the loop of processFrame over frame.data, four bytes a pixel: byte
\* i * 4 + 3 becomes 0 when g > 100 && g > r * 1.5 && g > b * 1.5
\* (indices count from 1 here; g > r * 1.5 in integers is 2 * g > 3 * r)
ChromaKey(data) ==
  [ k \in 1..Len(data) |->
      IF /\ k % 4 = 0
         /\ data[k - 2] > 100
         /\ 2 * data[k - 2] > 3 * data[k - 3]
         /\ 2 * data[k - 2] > 3 * data[k - 1]
      THEN 0
      ELSE data[k] ]

\* one animation frame of the chroma key loop; ready is
\* video.readyState === HAVE_ENOUGH_DATA, data the bytes that getImageData
\* returns after the video frame has been drawn
processFrame(ready, data) ==
  /\ requestRef
  /\ IF ready
     THEN /\ videoFrame' = data
          /\ canvasData' = ChromaKey(data)
          /\ lastEvent' = "keyed"
     ELSE /\ UNCHANGED <<videoFrame, canvasData>>
          /\ lastEvent' = "none"
  /\ requestRef' = TRUE
  /\ toggledFrom' = <<>>
  /\ UNCHANGED toolVars
  /\ viewIdle

\* ghost overlay buttons of the ControlPanel, enabled when a frame has been
\* captured
onToggleGhost ==
  /\ ghostImage # 0
  /\ isGhostVisible' = ~isGhostVisible
  /\ toggledFrom' = ViewState
  /\ lastEvent' = "toggle_ghost"
  /\ UNCHANGED <<activeLut, ghostImage, isChromaActive, activeGuide, showGrid,
                 requestRef, canvasData, videoFrame>>
  /\ viewIdle

\* chroma key button; the chroma effect of the next render schedules
\* processFrame when the key is on and the video is available, and cancels it
\* otherwise
onToggleChroma ==
  /\ mounted
  /\ isChromaActive' = ~isChromaActive
  /\ requestRef' = (isChromaActive' /\ videoStream # 0)
  /\ toggledFrom' = ViewState
  /\ lastEvent' = "toggle_chroma"
  /\ UNCHANGED <<activeLut, ghostImage, isGhostVisible, activeGuide, showGrid,
                 canvasData, videoFrame>>
  /\ viewIdle

\* the grid button that also switches the social guide off
toggleGridResetsGuide ==
  /\ showGrid' = ~showGrid
  /\ activeGuide' = "none"
  /\ toggledFrom' = ViewState
  /\ lastEvent' = "toggle_grid"
  /\ UNCHANGED <<activeLut, ghostImage, isGhostVisible, isChromaActive,
                 requestRef, canvasData, videoFrame>>
  /\ viewIdle

\* grid button of the LiveView
toggleGrid ==
  /\ showGrid' = ~showGrid
  /\ toggledFrom' = ViewState
  /\ lastEvent' = "toggle_grid"
  /\ UNCHANGED <<activeLut, ghostImage, isGhostVisible, isChromaActive, activeGuide,
                 requestRef, canvasData, videoFrame>>
  /\ viewIdle

\* capture button: img is the data URL of the video frame
handleCaptureGhost(img) ==
  /\ ghostImage' = img
  /\ isGhostVisible' = TRUE
  /\ toggledFrom' = <<>>
  /\ lastEvent' = "none"
  /\ UNCHANGED <<activeLut, isChromaActive, activeGuide, showGrid, requestRef,
                 canvasData, videoFrame>>
  /\ viewIdle

\* social guides button
toggleGuide ==
  /\ activeGuide' = CASE activeGuide = "none" -> "9:16"
                      [] activeGuide = "9:16" -> "4:5"
                      [] activeGuide = "4:5" -> "1:1"
                      [] OTHER -> "none"
  /\ toggledFrom' = <<>>
  /\ lastEvent' = "none"
  /\ UNCHANGED <<activeLut, ghostImage, isGhostVisible, isChromaActive, showGrid,
                 requestRef, canvasData, videoFrame>>
  /\ viewIdle

\* LUT preview buttons
onChangeLut(lut) ==
  /\ activeLut' = lut
  /\ toggledFrom' = <<>>
  /\ lastEvent' = "none"
  /\ UNCHANGED <<ghostImage, isGhostVisible, isChromaActive, activeGuide, showGrid,
                 requestRef, canvasData, videoFrame>>
  /\ viewIdle

(***************************************************************************)
(* Teleprompter (src/unnamed/part_001): script text and its words          *)
(***************************************************************************)
\* initial value of the text state
DefaultText ==
  << "B", "e", "n", "v", "e", "n", "u", "t", "i", " ", "a", " ", "q", "u",
     "e", "s", "t", "o", " ", "v", "i", "d", "e", "o", " ", "t", "u", "t",
     "o", "r", "i", "a", "l", "!", "\n", "\n", "O", "g", "g", "i", " ", "v",
     "e", "d", "r", "e", "m", "o", " ", "c", "o", "m", "e", " ", "u", "t",
     "i", "l", "i", "z", "z", "a", "r", "e", " ", "l", "a", " ", "S", "o",
     "n", "y", " ", "A", "6", "0", "0", "0", " ", "c", "o", "m", "e", " ",
     "u", "n", "a", " ", "v", "e", "r", "a", " ", "v", "i", "d", "e", "o",
     "c", "a", "m", "e", "r", "a", " ", "p", "r", "o", "f", "e", "s", "s",
     "i", "o", "n", "a", "l", "e", ".", "\n", "\n", "G", "r", "a", "z", "i",
     "e", " ", "a", " ", "q", "u", "e", "s", "t", "a", " ", "w", "e", "b",
     " ", "a", "p", "p", ",", " ", "p", "o", "s", "s", "i", "a", "m", "o",
     " ", "m", "o", "n", "i", "t", "o", "r", "a", "r", "e", " ", "l", "'",
     "a", "u", "d", "i", "o", " ", "e", " ", "c", "o", "n", "t", "r", "o",
     "l", "l", "a", "r", "e", " ", "l", "'", "e", "s", "p", "o", "s", "i",
     "z", "i", "o", "n", "e", ".", "\n", "\n", "(", "F", "a", "i", " ", "u",
     "n", "a", " ", "p", "a", "u", "s", "a", " ", "q", "u", "i", ".", ".",
     ".", ")", "\n", "\n", "C", "o", "m", "e", " ", "p", "o", "t", "e", "t",
     "e", " ", "v", "e", "d", "e", "r", "e", ",", " ", "i", "l", " ", "t",
     "e", "l", "e", "p", "r", "o", "m", "p", "t", "e", "r", " ", "s", "i",
     " ", "m", "u", "o", "v", "e", " ", "s", "o", "l", "o", " ", "q", "u",
     "a", "n", "d", "o", " ", "p", "a", "r", "l", "o", ",", " ", "p", "e",
     "r", "m", "e", "t", "t", "e", "n", "d", "o", "m", "i", " ", "d", "i",
     " ", "s", "e", "g", "u", "i", "r", "e", " ", "i", "l", " ", "m", "i",
     "o", " ", "r", "i", "t", "m", "o", " ", "n", "a", "t", "u", "r", "a",
     "l", "e", " ", "s", "e", "n", "z", "a", " ", "d", "o", "v", "e", "r",
     " ", "r", "i", "n", "c", "o", "r", "r", "e", "r", "e", " ", "i", "l",
     " ", "t", "e", "s", "t", "o", ".", "\n", "\n", "N", "o", "n", " ", "d",
     "i", "m", "e", "n", "t", "i", "c", "a", "t", "e", " ", "d", "i", " ",
     "i", "s", "c", "r", "i", "v", "e", "r", "v", "i", " ", "a", "l", " ",
     "c", "a", "n", "a", "l", "e", "!" >>

LowerCase == << "a", "b", "c", "d", "e", "f", "g", "h", "i", "j", "k", "l", "m",
                "n", "o", "p", "q", "r", "s", "t", "u", "v", "w", "x", "y", "z" >>
UpperCase == << "A", "B", "C", "D", "E", "F", "G", "H", "I", "J", "K", "L", "M",
                "N", "O", "P", "Q", "R", "S", "T", "U", "V", "W", "X", "Y", "Z" >>
Digits == { "0", "1", "2", "3", "4", "5", "6", "7", "8", "9" }
\* the regular expression classes \s and \w
WhiteSpace == { " ", "\n", "\t" }
WordChars == { LowerCase[k] : k \in 1..26 } \cup { UpperCase[k] : k \in 1..26 }
               \cup Digits \cup { "_" }

\* String.prototype.toLowerCase
toLowerCase(s) ==
  [ k \in 1..Len(s) |->
      IF \E j \in 1..26 : UpperCase[j] = s[k]
      THEN LowerCase[CHOOSE j \in 1..26 : UpperCase[j] = s[k]]
      ELSE s[k] ]

RECURSIVE trimStart(_)
trimStart(s) ==
  IF s # <<>> /\ Head(s) \in WhiteSpace THEN trimStart(Tail(s)) ELSE s

RECURSIVE trimEnd(_)
trimEnd(s) ==
  IF s # <<>> /\ s[Len(s)] \in WhiteSpace
  THEN trimEnd(SubSeq(s, 1, Len(s) - 1))
  ELSE s

\* String.prototype.trim
trim(s) == trimEnd(trimStart(s))

\* String.prototype.includes
includes(s, part) ==
  \E k \in 0..(Len(s) - Len(part)) : SubSeq(s, k + 1, k + Len(part)) = part

RECURSIVE SplitWords(_, _)
\* text.split(/(\s+)/).filter(w => w.trim().length > 0): the maximal runs of
\* characters that are not white space, in order; here those that start at
\* position i of s or later
SplitWords(s, i) ==
  IF \A j \in i..Len(s) : s[j] \in WhiteSpace
  THEN <<>>
  ELSE LET first == CHOOSE j \in i..Len(s) :
                      /\ s[j] \notin WhiteSpace
                      /\ \A k \in i..(j - 1) : s[k] \in WhiteSpace
           last == CHOOSE j \in first..Len(s) :
                     /\ j = Len(s) \/ s[j + 1] \in WhiteSpace
                     /\ \A k \in first..j : s[k] \notin WhiteSpace
       IN <<SubSeq(s, first, last)>> \o SplitWords(s, last + 1)

\* the words memo of a render whose text is t
wordsOf(t) == SplitWords(t, 1)

RECURSIVE LastSpokenWord(_, _)
\* transcript.split(' ') and its last element: the characters after the last
\* space character; cur is the element being read
LastSpokenWord(transcript, cur) ==
  IF transcript = <<>> THEN cur
  ELSE IF Head(transcript) = " "
       THEN LastSpokenWord(Tail(transcript), <<>>)
       ELSE LastSpokenWord(Tail(transcript), Append(cur, Head(transcript)))

\* words[i].toLowerCase().replace(/[^\w\s]/g, '')
scriptWord(word) ==
  SelectSeq(toLowerCase(word), LAMBDA ch : ch \in WordChars \cup WhiteSpace)

\* the fuzzy match of matchTextToScript
FuzzyMatch(word, lastSpokenWord) ==
  \/ scriptWord(word) = lastSpokenWord
  \/ Len(scriptWord(word)) > 3 /\ includes(lastSpokenWord, scriptWord(word))

\* matchTextToScript of a render whose words are ws and whose cursor is
\* startIndex: the index handed to setCurrentWordIndex, -1 when the loop ends
\* without a match.  Indices count from 0 as in the program.
matchTextToScript(ws, startIndex, transcript) ==
  LET lastSpokenWord == LastSpokenWord(transcript, <<>>)
      endIndex == IF Len(ws) < startIndex + searchWindow
                  THEN Len(ws) ELSE startIndex + searchWindow
      hits == { i \in startIndex..(endIndex - 1) : FuzzyMatch(ws[i + 1], lastSpokenWord) }
  IN IF hits = {} THEN -1
     ELSE CHOOSE i \in hits : \A j \in hits : i <= j

RECURSIVE MatchResults(_, _, _, _)
\* the loop of onresult over the results of one event: every result that is
\* final or has confidence > 0.6 is matched with the handler's captured words
\* and cursor; the last setCurrentWordIndex of the loop is the one that counts
MatchResults(ws, startIndex, results, cursor) ==
  IF results = <<>> THEN cursor
  ELSE LET r == Head(results)
           i == IF r.accepted
                THEN matchTextToScript(ws, startIndex, trim(toLowerCase(r.transcript)))
                ELSE -1
       IN MatchResults(ws, startIndex, Tail(results), IF i >= 0 THEN i ELSE cursor)

(***************************************************************************)
(* Teleprompter: timers, volume analysis, speech recognition               *)
(***************************************************************************)
TimerIds(tms) == { t.id : t \in tms }

\* window.setTimeout returns an id that no pending timer has
NewTimerId(tms) ==
  CHOOSE k \in 1..(Cardinality(tms) + 1) :
    /\ k \notin TimerIds(tms)
    /\ \A j \in 1..(k - 1) : j \in TimerIds(tms)

setTimeout(tms, id, due) == tms \cup { [ id |-> id, due |-> due ] }

clearTimeout(tms, id) == { t \in tms : t.id # id }

NoAnalyzer == [ running |-> FALSE, stream |-> 0, sensitivity |-> 0, voiceActive |-> FALSE ]

\* the analyze loop that the volume effect of a render with these values starts
VolumeLoop(stream, sens, va, m) ==
  IF stream # 0 /\ m = "volume"
  THEN [ running |-> TRUE, stream |-> stream, sensitivity |-> sens, voiceActive |-> va ]
  ELSE NoAnalyzer

\* analyze that leaves the silence timer pending when the level is above the
\* threshold
analyzeForgetsClearTimeout(c, sum, va, ref, tms) ==
  IF 10 * sum > frequencyBinCount * (550 - 4 * c.sensitivity)
  THEN [ voiceActive |-> TRUE, silenceTimerRef |-> 0, timers |-> tms, above |-> TRUE ]
  ELSE IF ref = 0 /\ c.voiceActive
       THEN [ voiceActive |-> va, silenceTimerRef |-> NewTimerId(tms),
              timers |-> setTimeout(tms, NewTimerId(tms), now + VolumeSilenceMs),
              above |-> FALSE ]
       ELSE [ voiceActive |-> va, silenceTimerRef |-> ref, timers |-> tms,
              above |-> FALSE ]

\* one call of analyze of the loop c on frequency data whose bytes add up to
\* sum; va, ref, tms are voiceActive, silenceTimerRef.current and the pending
\* timers before the call.  average > 55 - sensitivity * 0.4 in integers:
\* 10 * sum > frequencyBinCount * (550 - 4 * sensitivity)
analyze(c, sum, va, ref, tms) ==
  IF 10 * sum > frequencyBinCount * (550 - 4 * c.sensitivity)
  THEN [ voiceActive |-> TRUE, silenceTimerRef |-> 0,
         timers |-> IF ref # 0 THEN clearTimeout(tms, ref) ELSE tms,
         above |-> TRUE ]
  ELSE IF ref = 0 /\ c.voiceActive
       THEN [ voiceActive |-> va, silenceTimerRef |-> NewTimerId(tms),
              timers |-> setTimeout(tms, NewTimerId(tms), now + VolumeSilenceMs),
              above |-> FALSE ]
       ELSE [ voiceActive |-> va, silenceTimerRef |-> ref, timers |-> tms,
              above |-> FALSE ]

\* The volume effect after a render (dependencies audioStream, sensitivity,
\* voiceActive, mode).  va, ref, tms are the values left by the handler that
\* caused the render.  When a dependency differs from what the running loop
\* captured, the old loop is cancelled and initAudio of the new render calls
\* analyze at once.
VolumeEffect(va, ref, tms) ==
  LET loop == IF showTeleprompter'
              THEN VolumeLoop(audioStream, sensitivity', va, mode')
              ELSE NoAnalyzer
  IN /\ analyzer' = loop
     /\ heard' = <<>>
     /\ IF loop.running /\ loop # analyzer
        THEN \E sum \in Sums :
               LET a == analyze(loop, sum, va, ref, tms) IN
               /\ voiceActive' = a.voiceActive
               /\ silenceTimerRef' = a.silenceTimerRef
               /\ timers' = a.timers
               /\ lastAboveTime' = IF a.above THEN now ELSE lastAboveTime
               /\ dataSum' = sum
        ELSE /\ voiceActive' = va
             /\ silenceTimerRef' = ref
             /\ timers' = tms
             /\ dataSum' = -1
             /\ UNCHANGED lastAboveTime

\* recognition.stop()
stop(recs, i) ==
  IF i # 0 /\ recs[i].state = "started"
  THEN [recs EXCEPT ![i].state = "stopping"]
  ELSE recs

\* a render in smart mode with listening on that keeps smart mode whatever
\* the browser offers
ModeWithoutFallback(m, listening) == m

\* the mode after the render: the speech effect of a render in smart mode
\* with listening on falls back to volume mode when the browser has no
\* SpeechRecognition
ModeAfterFallback(m, listening) ==
  IF m = "smart" /\ listening /\ ~Recognition THEN "volume" ELSE m

\* what a step that selects mode m with this listening flag reports: the
\* speech effect of its render took the fallback branch, or nothing
FallbackEvent(m, listening) ==
  IF m = "smart" /\ listening /\ ~Recognition THEN "fallback" ELSE "none"

\* The speech effect after a render (dependencies mode, isListening, words):
\* the cleanup of the previous run stops the recognition that run created;
\* then either the current recognition is stopped, or a new one is created
\* whose handlers capture the render's isListening, words and cursor.
SpeechEffect ==
  IF <<mode', isListening', text'>> = <<mode, isListening, text>>
  THEN UNCHANGED <<recognitions, recognitionRef, speechEffect>>
  ELSE LET cleaned == stop(recognitions, speechEffect) IN
       IF mode' # "smart" \/ ~isListening'
       THEN /\ recognitions' = stop(cleaned, recognitionRef)
            /\ speechEffect' = 0
            /\ UNCHANGED recognitionRef
       ELSE /\ Len(recognitions) < MaxRecognitions
            /\ recognitions' = Append(cleaned,
                                 [ state |-> "started",
                                   detached |-> FALSE,
                                   isListening |-> isListening',
                                   currentWordIndex |-> currentWordIndex',
                                   words |-> wordsOf(text') ])
            /\ recognitionRef' = Len(recognitions) + 1
            /\ speechEffect' = Len(recognitions) + 1

\* what a Teleprompter step leaves alone in App and AudioMonitor
appIdle ==
  /\ frame' = "none"
  /\ UNCHANGED chunkVars
  /\ viewUntouched
  /\ UNCHANGED <<now, appVars, shotVars, srcVars, download, isAudioTriggerActive,
                 monVars>>

\* onToggleTeleprompter of the ControlPanel.  Mounting creates the component
\* with its initial state; its effects find smart mode with listening off.
\* While no Teleprompter is mounted its state variables hold their initial
\* values, the text being empty.
\* Unmounting runs the effect cleanups and drops the component state; the
\* timers and recognitions it leaves behind address the dropped instance.
onToggleTeleprompter ==
  /\ showTeleprompter' = ~showTeleprompter
  /\ recognitions' =
       IF showTeleprompter
       THEN [ k \in 1..Len(recognitions) |->
                [ stop(recognitions, speechEffect)[k] EXCEPT !.detached = TRUE ] ]
       ELSE recognitions
  /\ text' = IF showTeleprompter THEN <<>> ELSE DefaultText
  /\ isEditing' = FALSE
  /\ isListening' = FALSE
  /\ mode' = "smart"
  /\ voiceActive' = FALSE
  /\ sensitivity' = 20
  /\ currentWordIndex' = 0
  /\ silenceTimerRef' = 0
  /\ recognitionRef' = 0
  /\ speechEffect' = 0
  /\ timers' = {}
  /\ analyzer' = NoAnalyzer
  /\ lastAboveTime' = 0
  /\ dataSum' = -1
  /\ heard' = <<>>
  /\ lastEvent' = "none"
  /\ UNCHANGED Recognition
  /\ appIdle

\* START PROMPTER / LISTENING button
toggleListening ==
  /\ showTeleprompter
  /\ isListening' = ~isListening
  /\ mode' = ModeAfterFallback(mode, isListening')
  /\ UNCHANGED <<showTeleprompter, text, isEditing, sensitivity, currentWordIndex,
                 Recognition>>
  /\ SpeechEffect
  /\ VolumeEffect(voiceActive, silenceTimerRef, timers)
  /\ lastEvent' = FallbackEvent(mode, isListening')
  /\ appIdle

\* SMART TRACK / VOICE ACT buttons
setMode(m) ==
  /\ showTeleprompter
  /\ mode' = ModeAfterFallback(m, isListening)
  /\ UNCHANGED <<showTeleprompter, text, isEditing, isListening, sensitivity,
                 currentWordIndex, Recognition>>
  /\ SpeechEffect
  /\ VolumeEffect(voiceActive, silenceTimerRef, timers)
  /\ lastEvent' = FallbackEvent(m, isListening)
  /\ appIdle

\* sensitivity slider, rendered in volume mode
setSensitivity(s) ==
  /\ showTeleprompter
  /\ mode = "volume"
  /\ sensitivity' = s
  /\ UNCHANGED <<showTeleprompter, text, isEditing, isListening, mode,
                 currentWordIndex, Recognition>>
  /\ SpeechEffect
  /\ VolumeEffect(voiceActive, silenceTimerRef, timers)
  /\ lastEvent' = "none"
  /\ appIdle

\* Edit Text button
toggleEditing ==
  /\ showTeleprompter
  /\ isEditing' = ~isEditing
  /\ UNCHANGED <<showTeleprompter, text, isListening, mode, sensitivity,
                 currentWordIndex, Recognition>>
  /\ SpeechEffect
  /\ VolumeEffect(voiceActive, silenceTimerRef, timers)
  /\ lastEvent' = "none"
  /\ appIdle

\* onChange of the script textarea, rendered while editing
setText(t) ==
  /\ showTeleprompter
  /\ isEditing
  /\ text' = t
  /\ UNCHANGED <<showTeleprompter, isEditing, isListening, mode, sensitivity,
                 currentWordIndex, Recognition>>
  /\ SpeechEffect
  /\ VolumeEffect(voiceActive, silenceTimerRef, timers)
  /\ lastEvent' = "edited"
  /\ appIdle

\* a requestAnimationFrame call of analyze of the running loop.  Frames are
\* a display refresh apart, which is below the resolution of the model's
\* clock: any number of them may run at one clock value.
analyzeFrame(sum) ==
  /\ showTeleprompter
  /\ analyzer.running
  /\ LET a == analyze(analyzer, sum, voiceActive, silenceTimerRef, timers) IN
       /\ voiceActive' = a.voiceActive
       /\ silenceTimerRef' = a.silenceTimerRef
       /\ timers' = a.timers
       /\ lastAboveTime' = IF a.above THEN now ELSE lastAboveTime
  /\ dataSum' = sum
  /\ heard' = <<>>
  /\ lastEvent' = "none"
  /\ UNCHANGED <<showTeleprompter, text, isEditing, isListening, mode, sensitivity,
                 currentWordIndex, recognitionRef, analyzer, recognitions,
                 speechEffect, Recognition>>
  /\ appIdle

\* the volume effect of a render that was caused by a callback (an animation
\* frame, a timer, a recognition event, the audio stream becoming ready): it
\* runs after that callback has returned
volumeEffect ==
  /\ showTeleprompter
  /\ analyzer # VolumeLoop(audioStream, sensitivity, voiceActive, mode)
  /\ UNCHANGED <<showTeleprompter, text, isEditing, isListening, mode, sensitivity,
                 currentWordIndex, recognitionRef, recognitions, speechEffect,
                 Recognition>>
  /\ VolumeEffect(voiceActive, silenceTimerRef, timers)
  /\ lastEvent' = "none"
  /\ appIdle

\* a timer armed by analyze or by onresult comes due: setVoiceActive(false).
\* silenceTimerRef keeps the id of the timer.
silenceTimeout(id) ==
  /\ \E t \in timers : t.id = id /\ t.due <= now
  /\ timers' = clearTimeout(timers, id)
  /\ voiceActive' = FALSE
  /\ dataSum' = -1
  /\ heard' = <<>>
  /\ lastEvent' = "timeout"
  /\ UNCHANGED <<showTeleprompter, text, isEditing, isListening, mode, sensitivity,
                 currentWordIndex, silenceTimerRef, recognitionRef, analyzer,
                 recognitions, speechEffect, lastAboveTime, Recognition>>
  /\ appIdle

\* result event of recognition r; results are the results of the event from
\* resultIndex on, accepted meaning isFinal or confidence > 0.6
onresult(r, results) ==
  /\ r \in 1..Len(recognitions)
  /\ recognitions[r].state = "started"
  /\ IF recognitions[r].detached
     THEN UNCHANGED <<voiceActive, silenceTimerRef, timers, currentWordIndex>>
     ELSE LET cleared == IF silenceTimerRef # 0
                         THEN clearTimeout(timers, silenceTimerRef)
                         ELSE timers
          IN /\ voiceActive' = TRUE
             /\ silenceTimerRef' = NewTimerId(cleared)
             /\ timers' = setTimeout(cleared, NewTimerId(cleared), now + SpeechSilenceMs)
             /\ currentWordIndex' = MatchResults(recognitions[r].words,
                                                 recognitions[r].currentWordIndex,
                                                 results, currentWordIndex)
  /\ heard' = IF recognitions[r].detached THEN <<>> ELSE results
  /\ dataSum' = -1
  /\ lastEvent' = "result"
  /\ UNCHANGED <<showTeleprompter, text, isEditing, isListening, mode, sensitivity,
                 recognitionRef, analyzer, recognitions, speechEffect,
                 lastAboveTime, Recognition>>
  /\ appIdle

\* end event of recognition r, after stop() or when the engine ends the
\* session on its own: the handler restarts r when the isListening it
\* captured is true
onend(r) ==
  /\ r \in 1..Len(recognitions)
  /\ recognitions[r].state \in {"started", "stopping"}
  /\ IF recognitions[r].isListening
     THEN /\ recognitions' = [recognitions EXCEPT ![r].state = "started"]
          /\ lastEvent' = "restarted"
     ELSE /\ recognitions' = [recognitions EXCEPT ![r].state = "ended"]
          /\ lastEvent' = "ended"
  /\ dataSum' = -1
  /\ heard' = <<>>
  /\ UNCHANGED <<showTeleprompter, text, isEditing, isListening, mode, voiceActive,
                 sensitivity, currentWordIndex, silenceTimerRef, recognitionRef,
                 timers, analyzer, speechEffect, lastAboveTime, Recognition>>
  /\ appIdle

(***************************************************************************)
(* Initial state: App and AudioMonitor mounted; the mount effect has       *)
(* called initAudio of the first render                                    *)
(***************************************************************************)
InitApp ==
  /\ now = Epoch
  /\ isRecording = FALSE
  /\ mediaRecorderRef = 0
  /\ recordingTimerRef = FALSE
  /\ recordingDuration = 0
  /\ intervals = 0
  /\ videoStream = 0
  /\ audioStream = 0
  /\ shots = <<>>
  /\ activeShotId = 0
  /\ isAudioTriggerActive = FALSE
  /\ recorders = <<>>
  /\ download = NoFile
  /\ activeLut = "none"
  /\ ghostImage = 0
  /\ isGhostVisible = FALSE
  /\ isChromaActive = FALSE
  /\ activeGuide = "none"
  /\ showGrid = TRUE
  /\ requestRef = FALSE
  /\ canvasData = <<>>
  /\ videoFrame = <<>>
  /\ toggledFrom = <<>>
  /\ chunksRef = <<>>
  /\ blob = <<>>
  /\ lastEvent = "none"
  /\ permission = "prompt"
  /\ streamRef = 0
  /\ pendingInits = << [ isAudioTriggerActive |-> FALSE, isRecording |-> FALSE,
                         videoStream |-> 0, audioStream |-> 0,
                         shots |-> <<>>, activeShotId |-> 0 ] >>
  /\ loops = <<>>
  /\ lastClapTimeRef = 0
  /\ nInits = 1
  /\ frame = "none"
  /\ lastTransientTime = 0
  /\ ranUpTo = 0
  /\ mounted = TRUE
  /\ camera = "disconnected"
  /\ isActive = FALSE
  /\ cameraTracks = "none"
  /\ errorType = "null"
  /\ cameraError = ""
  /\ stoppedStreams = {}
  /\ animationFrameRef = 0
  /\ cancelled = {}
  /\ lateReport = FALSE
  /\ settings = [ iso |-> 800, aperture |-> 28, shutterSpeed |-> "1/50",
                  wb |-> "5600K" ]

InitTeleprompterState ==
  /\ showTeleprompter = FALSE
  /\ text = <<>>
  /\ isEditing = FALSE
  /\ isListening = FALSE
  /\ mode = "smart"
  /\ voiceActive = FALSE
  /\ sensitivity = 20
  /\ currentWordIndex = 0
  /\ silenceTimerRef = 0
  /\ recognitionRef = 0
  /\ timers = {}
  /\ analyzer = NoAnalyzer
  /\ recognitions = <<>>
  /\ speechEffect = 0
  /\ lastAboveTime = 0
  /\ dataSum = -1
  /\ heard = <<>>

InitTeleprompter == InitTeleprompterState /\ Recognition = TRUE

Init == InitApp /\ InitTeleprompter

\* the same in a browser without SpeechRecognition
InitNoRecognition == InitApp /\ InitTeleprompterState /\ Recognition = FALSE

NextClap ==
  \/ ClickRecord
  \/ onToggleAudioTrigger
  \/ initAudio
  \/ initAudioGranted
  \/ \E i \in 1..MaxInits, p \in PeakSamples : draw(i, p)
  \/ \E d \in ClapDeltas : AdvanceTime(d, MaxTime)

SpecClap == Init /\ [][NextClap]_vars

NextSession ==
  \/ ClickRecord
  \/ \E r \in 1..MaxRecorders : RecorderOnStop(r)
  \/ \E r \in 1..MaxRecorders : RecorderOnError(r)
  \/ VideoStreamReady
  \/ initAudioGranted

SpecSession == Init /\ [][NextSession]_vars

\* the recording session with its duration timer
NextTimer ==
  \/ ClickRecord
  \/ tick
  \/ \E r \in 1..MaxRecorders : RecorderOnStop(r)
  \/ \E r \in 1..MaxRecorders : RecorderOnError(r)
  \/ VideoStreamReady
  \/ initAudioGranted

SpecTimer == Init /\ [][NextTimer]_vars

\* the recording session with the data its recorders deliver
NextChunks ==
  \/ ClickRecord
  \/ \E r \in 1..MaxRecorders, size \in {0, 1} : ondataavailable(r, size)
  \/ \E r \in 1..MaxRecorders : RecorderOnStop(r)
  \/ \E r \in 1..MaxRecorders : RecorderOnError(r)
  \/ initAudioGranted

SpecChunks == Init /\ [][NextChunks]_vars

\* the recording session driven by the REC button and by Magic Snap, with the
\* data its recorders deliver
NextSnap ==
  \/ ClickRecord
  \/ onToggleAudioTrigger
  \/ initAudio
  \/ initAudioGranted
  \/ \E i \in 1..MaxInits, p \in PeakSamples : draw(i, p)
  \/ \E r \in 1..MaxRecorders, size \in {0, 1} : ondataavailable(r, size)
  \/ \E r \in 1..MaxRecorders : RecorderOnStop(r)
  \/ \E d \in SnapDeltas : AdvanceTime(d, MaxSnapTime)

SpecSnap == Init /\ [][NextSnap]_vars

\* the clap detector alone: every recording is started and stopped by it
NextPair ==
  \/ onToggleAudioTrigger
  \/ initAudio
  \/ initAudioGranted
  \/ \E i \in 1..MaxInits, p \in PeakSamples : draw(i, p)
  \/ \E d \in ClapDeltas : AdvanceTime(d, MaxTime)

SpecPair == Init /\ [][NextPair]_vars

\* the capture components from mount to teardown
NextTeardown ==
  \/ Connected
  \/ VideoAcquired
  \/ \E name \in CameraErrorNames : VideoFailed(name)
  \/ initAudio
  \/ initAudioGranted
  \/ \E i \in 1..MaxInits, p \in PeakSamples : draw(i, p)
  \/ onToggleChroma
  \/ \E ready \in BOOLEAN : processFrame(ready, GreenPixel)
  \/ Unmount
  \/ \E d \in ClapDeltas : AdvanceTime(d, MaxTeardownTime)

SpecTeardown == Init /\ [][NextTeardown]_vars

\* the camera settings tiles
NextSettings ==
  \/ \E delta \in {-100, 100} : adjustISO(delta)
  \/ \E delta \in {-1, 1} : adjustAperture(delta)

SpecSettings == Init /\ [][NextSettings]_vars

\* the camera start and what the rest of the application does around it
NextCamera ==
  \/ Connected
  \/ VideoAcquired
  \/ \E name \in CameraErrorNames : VideoFailed(name)
  \/ initAudioGranted
  \/ ClickRecord
  \/ \E r \in 1..MaxRecorders : RecorderOnStop(r)
  \/ \E n \in ShotNames : handleAddShot(n)
  \/ onToggleChroma
  \/ toggleGrid

SpecCamera == Init /\ [][NextCamera]_vars

NextRec ==
  \/ ClickRecord
  \/ \E r \in 1..MaxRecorders : RecorderOnStop(r)
  \/ \E r \in 1..MaxRecorders : RecorderOnError(r)
  \/ initAudioGranted
  \/ \E n \in ShotNames : handleAddShot(n)
  \/ \E k \in 1..MaxShots : k <= Len(shots) /\ handleDeleteShot(shots[k].id)
  \/ \E k \in 1..MaxShots : k <= Len(shots) /\ onSelectShot(shots[k].id)
  \/ \E d \in RecDeltas : AdvanceTime(d, MaxTime)

SpecRec == Init /\ [][NextRec]_vars

\* the shot list panel
NextShots ==
  \/ \E n \in ShotListNames : handleAddShot(n)
  \/ \E k \in 1..MaxShots : k <= Len(shots) /\ handleDeleteShot(shots[k].id)
  \/ \E k \in 1..MaxShots : k <= Len(shots) /\ handleToggleShotComplete(shots[k].id)
  \/ \E k \in 1..MaxShots : k <= Len(shots) /\ onSelectShot(shots[k].id)
  \/ \E d \in ShotDeltas : AdvanceTime(d, MaxShotTime)

SpecShots == Init /\ [][NextShots]_vars

\* the chroma key of the LiveView
NextChroma ==
  \/ VideoStreamReady
  \/ onToggleChroma
  \/ \E ready \in BOOLEAN, data \in VideoFrames : processFrame(ready, data)

SpecChroma == Init /\ [][NextChroma]_vars

\* the overlays and production tools beside the recording session
NextOverlay ==
  \/ onToggleGhost
  \/ onToggleChroma
  \/ toggleGrid
  \/ \E img \in GhostFrames : handleCaptureGhost(img)
  \/ toggleGuide
  \/ \E lut \in LutPresets : onChangeLut(lut)
  \/ VideoStreamReady
  \/ initAudioGranted
  \/ ClickRecord
  \/ \E r \in 1..MaxRecorders : RecorderOnStop(r)

SpecOverlay == Init /\ [][NextOverlay]_vars

\* script alignment: the Teleprompter with its editor and recognition events
NextAlign ==
  \/ onToggleTeleprompter
  \/ toggleListening
  \/ \E m \in {"smart", "volume"} : setMode(m)
  \/ toggleEditing
  \/ \E t \in Scripts : setText(t)
  \/ \E r \in 1..MaxRecognitions, e \in ResultEvents : onresult(r, e)
  \/ \E r \in 1..MaxRecognitions : onend(r)

SpecAlign == Init /\ [][NextAlign]_vars

\* voice activity: the Teleprompter with the audio stream, its analysis
\* frames, its timers and the clock
NextVoice ==
  \/ initAudioGranted
  \/ onToggleTeleprompter
  \/ toggleListening
  \/ \E m \in {"smart", "volume"} : setMode(m)
  \/ \E s \in Sensitivities : setSensitivity(s)
  \/ \E sum \in Sums : analyzeFrame(sum)
  \/ volumeEffect
  \/ \E id \in 1..MaxTimers : silenceTimeout(id)
  \/ \E r \in 1..MaxRecognitions : onresult(r, InterimEvent)
  \/ \E r \in 1..MaxRecognitions : onend(r)
  \/ \E d \in VoiceDeltas : AdvanceTime(d, MaxVoiceTime)

SpecVoice == Init /\ [][NextVoice]_vars

\* the Teleprompter in a browser without SpeechRecognition
NextFallback ==
  \/ initAudioGranted
  \/ onToggleTeleprompter
  \/ toggleListening
  \/ \E m \in {"smart", "volume"} : setMode(m)
  \/ \E s \in Sensitivities : setSensitivity(s)
  \/ toggleEditing
  \/ \E t \in Scripts : setText(t)
  \/ \E sum \in Sums : analyzeFrame(sum)
  \/ volumeEffect
  \/ \E id \in 1..MaxTimers : silenceTimeout(id)
  \/ \E d \in VoiceDeltas : AdvanceTime(d, MaxFallbackTime)

SpecFallback == InitNoRecognition /\ [][NextFallback]_vars

(***************************************************************************)
(* Claims about the clap trigger (AudioMonitor.draw) and the recording     *)
(* session (App)                                                           *)
(***************************************************************************)
Alerts == {"alert_no_source", "alert_start_failed"}
StartAttempts == {"started"} \cup Alerts
Stops == {"stopped", "error_stopped"}
Qualifying == {"loud", "fired"}       \* frames with peak > 0.6

\* C3: with Magic Snap switched on, a qualifying frame not less than 100 ms after
\* the stored transient fires the trigger when it comes less than 800 ms after
\* it; when it comes more than 800 ms after it, the trigger does not fire and
\* the frame's time is stored for a later pairing.
C3_PairWithinWindow ==
  [][ ( /\ isAudioTriggerActive
        /\ frame' \in Qualifying
        /\ now - lastClapTimeRef >= 100 )
      => /\ (now - lastClapTimeRef < 800 => frame' = "fired")
         /\ (now - lastClapTimeRef > 800
               => frame' = "loud" /\ lastClapTimeRef' = now) ]_vars

\* C4: a qualifying frame that comes less than 100 ms after the previous
\* registered transient neither fires the trigger nor changes the stored
\* timestamp, also when that previous transient was the one that fired.
C4_DebounceAfterAnyTransient ==
  [][ ( /\ frame' \in Qualifying
        /\ lastTransientTime # 0
        /\ now > lastTransientTime
        /\ now - lastTransientTime < 100 )
      => (frame' # "fired" /\ lastClapTimeRef' = lastClapTimeRef) ]_vars

\* C5: a detected double clap stops the recording when the session is
\* recording at that moment and otherwise attempts a start with the video and
\* audio streams available at that moment.
C5_ClapTogglesCurrentSession ==
  [][ frame' = "fired"
      => IF isRecording
         THEN lastEvent' = "stopped" /\ ~isRecording'
         ELSE /\ lastEvent' \in StartAttempts
              /\ (lastEvent' = "alert_no_source"
                    => videoStream = 0 /\ audioStream = 0)
              /\ (lastEvent' = "started"
                    => /\ recorders'[mediaRecorderRef'].videoStream = videoStream
                       /\ recorders'[mediaRecorderRef'].audioStream = audioStream) ]_vars

\* C7: the session leaves idle only by a successful start and leaves
\* recording only by a stop, every stop leaves it idle, and a start is never
\* performed while the session is recording.
C7_IdleRecordingIdle ==
  [][ /\ (~isRecording /\ isRecording' => lastEvent' = "started")
      /\ (isRecording /\ ~isRecording' => lastEvent' \in Stops)
      /\ (lastEvent' \in Stops => ~isRecording')
      /\ (lastEvent' = "started" => ~isRecording) ]_vars

\* C8: a start attempt with neither stream present shows the no-source alert,
\* and a start that fails (no source, or the recorder throws) shows an alert
\* and changes nothing: the recording flag stays as it was (false when the
\* session was idle), no duration timer is started and no recorder is
\* created or registered as current.
C8_FailedStartChangesNothing ==
  [][ /\ ( lastEvent' \in StartAttempts /\ videoStream = 0 /\ audioStream = 0
             => lastEvent' = "alert_no_source" )
      /\ ( lastEvent' \in Alerts
             => /\ isRecording' = isRecording
                /\ (~isRecording => ~isRecording')
                /\ recordingTimerRef' = recordingTimerRef
                /\ mediaRecorderRef' = mediaRecorderRef
                /\ recorders' = recorders ) ]_vars

C8_Witness ==
  /\ lastEvent = "alert_start_failed"
  /\ audioStream # 0
  /\ ~isRecording
  /\ ~recordingTimerRef
  /\ mediaRecorderRef = 0

RECURSIVE SpacesToUnderscores(_)
SpacesToUnderscores(name) ==
  IF name = <<>> THEN <<>>
  ELSE <<IF Head(name) = " " THEN "_" ELSE Head(name)>>
         \o SpacesToUnderscores(Tail(name))

\* C9 (for a recording whose shot list and selection are the same when it
\* stops and when its file is saved): when a shot is selected, the file is named
\* after that shot (spaces as underscores) and its take counter, and exactly
\* that shot's take counter grows by one; with no shot selected the file is
\* named A6000_REC_<timestamp> and no take counter changes.
C9_FilenameFromSelectedShot ==
  [][ ( /\ lastEvent' = "saved"
        /\ \E r \in 1..Len(recorders) :
              /\ recorders[r].stopPending /\ ~recorders'[r].stopPending
              /\ recorders[r].stoppedWith = <<shots, activeShotId>> )
      => LET i == FindShot(shots, activeShotId) IN
         IF i # 0
         THEN /\ download' = [ kind |-> "take",
                               base |-> SpacesToUnderscores(shots[i].name),
                               n |-> shots[i].take ]
              /\ shots' = [shots EXCEPT ![i].take = @ + 1]
         ELSE /\ download'.kind = "A6000_REC"
              /\ shots' = shots ]_vars

(***************************************************************************)
(* Claims about the Teleprompter                                           *)
(***************************************************************************)
\* C1: while the script text is not edited, the cursor after a recognition
\* result is never smaller than the cursor before it.
C1_CursorNeverMovesBack ==
  [][ (lastEvent' = "result" /\ text' = text)
      => currentWordIndex' >= currentWordIndex ]_vars

\* C2: after every change of the script text through the editor the cursor
\* is 0.
C2_EditResetsCursor ==
  [][ (lastEvent' = "edited" /\ text' # text) => currentWordIndex' = 0 ]_vars

C10_RestartOnlyWhileEnabled ==
  [][ lastEvent' = "restarted"
      => (showTeleprompter /\ isListening /\ mode = "smart") ]_vars

(***************************************************************************)
(* Claims about the recorder's error and stop events                       *)
(***************************************************************************)
\* C11: the error event of a recording recorder leaves that recorder and the
\* current recorder inactive, the session idle and the duration timer
\* cleared, as a stop by the user does, and the recorder's stop event is still
\* to come; the stop event of every stopped recorder, errored or not, hands
\* the buffered chunks to a download and empties the buffer.
C11_ErrorTakesStopPath ==
  [][ /\ ( lastEvent' \in Stops
           => /\ ~isRecording'
              /\ ~recordingTimerRef'
              /\ ( mediaRecorderRef # 0
                     => recorders'[mediaRecorderRef].state = "inactive" ) )
      /\ ( lastEvent' = "error_stopped"
           => \A r \in 1..Len(recorders) :
                (recorders[r].state = "recording" /\ recorders'[r].error)
                  => (recorders'[r].state = "inactive" /\ recorders'[r].stopPending) )
      /\ ( lastEvent' = "saved"
           => /\ blob' = chunksRef
              /\ chunksRef' = <<>>
              /\ download' # NoFile ) ]_vars

\* an errored recorder's file has been saved with the data it had delivered
C11_Witness ==
  /\ lastEvent = "saved"
  /\ ~isRecording
  /\ ~recordingTimerRef
  /\ blob # <<>>
  /\ recorders[blob[1].recorder].error
  /\ ~recorders[blob[1].recorder].stopPending

\* C20: the Blob that the stop event of a recorder hands to the download is
\* the non-empty data that this recorder has delivered, in the order of
\* arrival, and nothing else; the buffer is empty afterwards.
C20_OutputIsOwnChunks ==
  [][ lastEvent' = "saved"
      => /\ \A r \in 1..Len(recorders) :
              (recorders[r].stopPending /\ ~recorders'[r].stopPending)
                => blob' = recorders[r].chunks
         /\ chunksRef' = <<>> ]_vars

(***************************************************************************)
(* Claims about the LiveView and the overlays                              *)
(***************************************************************************)
\* C12: the bytes on the canvas are those of the video frame, except that the
\* alpha of a pixel is 0 exactly when g > 100, g > 1.5 r and g > 1.5 b, or
\* when it was 0 in the video frame; every other alpha and every r, g, b byte
\* is as in the video frame.
C12_ChromaKeyRule ==
  /\ Len(canvasData) = Len(videoFrame)
  /\ \A i \in 0..((Len(videoFrame) \div 4) - 1) :
       LET r == videoFrame[4 * i + 1]
           g == videoFrame[4 * i + 2]
           b == videoFrame[4 * i + 3]
           a == videoFrame[4 * i + 4]
           green == g > 100 /\ 10 * g > 15 * r /\ 10 * g > 15 * b
       IN /\ canvasData[4 * i + 1] = r
          /\ canvasData[4 * i + 2] = g
          /\ canvasData[4 * i + 3] = b
          /\ (canvasData[4 * i + 4] = 0) <=> (green \/ a = 0)
          /\ (~green => canvasData[4 * i + 4] = a)

\* a frame with a green pixel that red alone would not tell from a kept one
C12_Witness ==
  /\ lastEvent = "keyed"
  /\ videoFrame = <<10, 200, 10, 255, 67, 200, 150, 255>>
  /\ canvasData = <<10, 200, 10, 0, 67, 200, 150, 255>>

\* C13: a second toggle of the same overlay (ghost, chroma key or grid)
\* right after the first leaves the overlay flag and everything else the
\* application shows and does as it was before the first.
C13_ToggleTwiceRestores ==
  [][ ( /\ lastEvent \in {"toggle_ghost", "toggle_chroma", "toggle_grid"}
        /\ lastEvent' = lastEvent )
      => ViewState' = toggledFrom ]_vars

C13_Witness ==
  /\ lastEvent = "toggle_chroma"
  /\ toggledFrom # ViewState
  /\ isChromaActive
  /\ requestRef
  /\ isRecording
  /\ ghostImage # 0

(***************************************************************************)
(* Claims about the Teleprompter's recognition fallback and alignment      *)
(***************************************************************************)
\* C14: in a browser without SpeechRecognition, a step that leaves smart mode
\* selected with listening enabled ends in volume mode, with no recognition
\* created or referenced, and with the cursor, the text, the editor, the
\* sensitivity and the listening flag as the step selected them; the voice
\* indicator and its timer change only by the volume analysis that volume
\* mode starts.
C14_FallbackToVolume ==
  [][ lastEvent' = "fallback"
      => /\ mode' = "volume"
         /\ isListening'
         /\ recognitions' = recognitions
         /\ recognitionRef' = recognitionRef
         /\ speechEffect' = 0
         /\ currentWordIndex' = currentWordIndex
         /\ <<text', isEditing', sensitivity'>> = <<text, isEditing, sensitivity>>
         /\ ( dataSum' = -1
                => <<voiceActive', silenceTimerRef', timers'>>
                     = <<voiceActive, silenceTimerRef, timers>> ) ]_vars

C14_Witness ==
  /\ lastEvent = "fallback"
  /\ ~Recognition
  /\ showTeleprompter
  /\ isListening
  /\ mode = "volume"
  /\ recognitions = <<>>
  /\ recognitionRef = 0
  /\ text = ScriptOneTwo

\* the cursor that a result event asks for, searching the words ws from the
\* cursor c: every accepted result moves it to the first word that matches
\* among the searchWindow words from the cursor on, if there is one
RECURSIVE CursorAfter(_, _, _)
CursorAfter(c, ws, results) ==
  IF results = <<>> THEN c
  ELSE LET spoken == LastSpokenWord(trim(toLowerCase(Head(results).transcript)), <<>>)
           hits == { i \in 0..(Len(ws) - 1) :
                       /\ c <= i
                       /\ i < c + 50
                       /\ FuzzyMatch(ws[i + 1], spoken) }
           next == IF Head(results).accepted /\ hits # {}
                   THEN CHOOSE i \in hits : \A j \in hits : i <= j
                   ELSE c
       IN CursorAfter(next, ws, Tail(results))

\* C15: a result event that the mounted Teleprompter handles leaves the
\* cursor at the smallest index i with c <= i < min(n, c + 50) whose word
\* matches the spoken word, c being the cursor and n the number of words of
\* the script when the event arrives, and leaves it at c when there is none.
C15_SearchFromCurrentCursor ==
  [][ (lastEvent' = "result" /\ heard' # <<>>)
      => currentWordIndex' = CursorAfter(currentWordIndex, wordsOf(text), heard') ]_vars

Punctuation == { ".", ",", ";", ":", "!", "?", "'", "(", ")", "-" }

\* a script token, lower-cased and without punctuation, equals the spoken
\* word, or is longer than 3 characters and contained in it
TokenMatches(token, spoken) ==
  LET bare == SelectSeq(toLowerCase(token), LAMBDA ch : ch \notin Punctuation)
  IN \/ bare = spoken
     \/ Len(bare) > 3 /\ includes(spoken, bare)

RECURSIVE CursorByLastWord(_, _, _)
CursorByLastWord(c, ws, results) ==
  IF results = <<>> THEN c
  ELSE LET spoken == LastSpokenWord(trim(toLowerCase(Head(results).transcript)), <<>>)
           hits == { i \in 0..(Len(ws) - 1) :
                       /\ c <= i
                       /\ i < c + 50
                       /\ TokenMatches(ws[i + 1], spoken) }
           next == IF Head(results).accepted /\ hits # {}
                   THEN CHOOSE i \in hits : \A j \in hits : i <= j
                   ELSE c
       IN CursorByLastWord(next, ws, Tail(results))

\* C16 (for a result event whose handler searches from the cursor of the
\* moment): the cursor moves to the first token in the window that, lower-cased
\* and with its punctuation removed, equals the last word of the fragment or
\* is longer than 3 characters and contained in that last word; the words
\* before the last one play no part, and the cursor stays when no token in
\* the window does so.
C16_MatchOnLastWord ==
  [][ ( /\ lastEvent' = "result"
        /\ heard' # <<>>
        /\ \A r \in 1..Len(recognitions) :
              (recognitions[r].state = "started" /\ ~recognitions[r].detached)
                => /\ recognitions[r].currentWordIndex = currentWordIndex
                   /\ recognitions[r].words = wordsOf(text) )
      => currentWordIndex' = CursorByLastWord(currentWordIndex, wordsOf(text), heard') ]_vars

(***************************************************************************)
(* Claims about the voice activity timer and the clap detector             *)
(***************************************************************************)
\* C17 (arming and cancelling): a frame at or below the threshold, analysed
\* in volume mode while the active flag is true, arms exactly one timer due
\* 600 ms later when no timer is pending and arms none when one is pending;
\* a frame above the threshold leaves no timer pending.
C17_SilenceTimerArmedOnce ==
  [][ /\ ( ( /\ dataSum' >= 0
             /\ 10 * dataSum' <= 128 * (550 - 4 * sensitivity')
             /\ showTeleprompter'
             /\ mode' = "volume"
             /\ voiceActive )
           => IF timers = {}
              THEN \E t \in timers' : timers' = {t} /\ t.due = now + 600
              ELSE timers' = timers )
      /\ ( ( /\ dataSum' >= 0
             /\ 10 * dataSum' > 128 * (550 - 4 * sensitivity') )
           => timers' = {} ) ]_vars

C19_CurrentFlagEachFrame ==
  [][ /\ ( (frame' # "none" /\ ~isAudioTriggerActive)
           => (frame' # "fired" /\ lastClapTimeRef' = lastClapTimeRef) )
      /\ ( (frame' \in Qualifying /\ isAudioTriggerActive)
           => /\ ( (now - lastClapTimeRef > 100 /\ now - lastClapTimeRef < 800)
                   => frame' = "fired" )
              /\ (lastClapTimeRef = 0 => lastClapTimeRef' = now) ) ]_vars

(***************************************************************************)
(* Claims about the shot list, the recorders and the component lifecycle   *)
(***************************************************************************)
\* C21: the file of a recording is named from the shot list and the selection
\* as they were when the recording stopped: with a shot selected at that
\* moment the file carries that shot's name and take counter and the shot with
\* that id gets its counter raised; with none selected the file is named
\* A6000_REC_<timestamp> and no counter changes.
C21_NamingEvaluatedOnStop ==
  [][ lastEvent' = "saved"
      => \A r \in 1..Len(recorders) :
           ( /\ recorders[r].stopPending /\ ~recorders'[r].stopPending
             /\ recorders[r].stoppedWith # <<>> )
           => LET list == recorders[r].stoppedWith[1]
                  i == FindShot(list, recorders[r].stoppedWith[2]) IN
              IF i # 0
              THEN /\ download' = [ kind |-> "take",
                                    base |-> SpacesToUnderscores(list[i].name),
                                    n |-> list[i].take ]
                   /\ shots' = [k \in 1..Len(shots) |->
                                  IF shots[k].id = list[i].id
                                  THEN [shots[k] EXCEPT !.take = @ + 1]
                                  ELSE shots[k]]
              ELSE /\ download'.kind = "A6000_REC"
                   /\ shots' = shots ]_vars

\* C22: once the capture components are torn down, every audio stream that
\* AudioMonitor acquired and the camera stream of LiveView have their tracks
\* stopped, no frame callback of the chroma key loop or of a draw loop remains
\* scheduled, and no stream has been reported to the parent after the
\* teardown.
C22_TeardownReleasesEverything ==
  ~mounted
    => /\ \A k \in 1..(nInits - Len(pendingInits)) : k \in stoppedStreams
       /\ cameraTracks # "live"
       /\ ~requestRef
       /\ \A i \in 1..Len(loops) : i \in cancelled
       /\ ~lateReport

\* C23: when the camera acquisition of the mounted LiveView fails, the error
\* shown is "device" for NotFoundError and DevicesNotFoundError, "permission"
\* for NotAllowedError and PermissionDeniedError and "generic" for any other
\* name; no video stream is available; the recording session, the audio
\* stream, the shot list and the overlay state stay as they were; and a start
\* attempted after the failure with an audio stream present is not refused.
C23_CameraFailureIsLocal ==
  [][ /\ ( (camera = "acquiring" /\ camera' = "failed" /\ isActive)
           => /\ cameraError' \in {"NotFoundError", "DevicesNotFoundError"}
                   => errorType' = "device"
              /\ cameraError' \in {"NotAllowedError", "PermissionDeniedError"}
                   => errorType' = "permission"
              /\ cameraError' \notin {"NotFoundError", "DevicesNotFoundError",
                                      "NotAllowedError", "PermissionDeniedError"}
                   => errorType' = "generic"
              /\ videoStream' = 0
              /\ cameraTracks' = "none"
              /\ UNCHANGED <<appVars, audioStream, shotVars, toolVars, requestRef,
                             canvasData, chunkVars, download>> )
      /\ ( ( /\ camera = "failed"
             /\ audioStream # 0
             /\ ~isRecording
             /\ lastEvent' \in StartAttempts )
           => lastEvent' # "alert_no_source" ) ]_vars

\* an audio-only recording is running after the camera failed for lack of
\* permission
C23_Witness ==
  /\ camera = "failed"
  /\ errorType = "permission"
  /\ isRecording
  /\ mediaRecorderRef # 0
  /\ recorders[mediaRecorderRef].videoStream = 0
  /\ recorders[mediaRecorderRef].audioStream # 0
  /\ recorders[mediaRecorderRef].state = "recording"

\* C24: after every step ISO lies in 100..25600 and the aperture in 1.4..22
\* (14..220 tenths); a step that changes ISO leaves aperture, shutter label and
\* white balance label as they were, and a step that changes the aperture
\* leaves ISO and both labels as they were.
C24_SettingsStayClamped ==
  [][ /\ settings'.iso >= 100 /\ settings'.iso <= 25600
      /\ settings'.aperture >= 14 /\ settings'.aperture <= 220
      /\ settings'.shutterSpeed = settings.shutterSpeed
      /\ settings'.wb = settings.wb
      /\ settings'.iso = settings.iso \/ settings'.aperture = settings.aperture ]_vars

\* both settings have been driven against a limit: ISO down to 100 and the
\* aperture up to 22
C24_Witness ==
  /\ settings.iso = 100
  /\ settings.aperture = 220
  /\ settings.shutterSpeed = "1/50"
  /\ settings.wb = "5600K"

\* C25: no two shots of the list have the same identifier.
C25_ShotIdsUnique ==
  \A i \in 1..Len(shots) : \A j \in 1..Len(shots) :
    i # j => shots[i].id # shots[j].id

\* C26: at most one MediaRecorder is in the recording state; while the session
\* is recording, mediaRecorderRef names a recorder that is recording; and every
\* recorder that is recording is the one mediaRecorderRef names.
C26_OneReferencedRecorder ==
  /\ \A q \in 1..Len(recorders) : \A r \in 1..Len(recorders) :
       (recorders[q].state = "recording" /\ recorders[r].state = "recording")
         => q = r
  /\ isRecording
       => (mediaRecorderRef # 0 /\ recorders[mediaRecorderRef].state = "recording")
  /\ \A r \in 1..Len(recorders) :
       recorders[r].state = "recording" => mediaRecorderRef = r

\* C27: the cursor is never negative, and whenever the script has at least
\* one token the cursor is smaller than the number of tokens.
C27_CursorIndexesTokens ==
  /\ currentWordIndex >= 0
  /\ Len(wordsOf(text)) >= 1 => currentWordIndex < Len(wordsOf(text))

\* C28: at most one draw loop of the AudioMonitor has a frame callback
\* scheduled, so at most one loop has run its frame at any clock value.
C28_OneDrawLoop ==
  /\ \A i \in 1..Len(loops) : \A j \in 1..Len(loops) :
       (i \notin cancelled /\ j \notin cancelled) => i = j
  /\ ranUpTo <= 1

\* C29: after every step exactly one interval is active when the recording
\* flag is true and none when it is false; a successful start leaves the
\* duration at 0, a tick raises it by one, nothing else changes it, and it
\* does not change in a step that begins and ends idle.
C29_DurationTimerFollowsRecording ==
  [][ /\ intervals' = (IF isRecording' THEN 1 ELSE 0)
      /\ recordingTimerRef' = isRecording'
      /\ lastEvent' = "started" => recordingDuration' = 0
      /\ lastEvent' = "tick" => recordingDuration' = recordingDuration + 1
      /\ lastEvent' \notin {"started", "tick"}
           => recordingDuration' = recordingDuration
      /\ (~isRecording /\ ~isRecording')
           => recordingDuration' = recordingDuration ]_vars

\* the second recording of the session is running and its timer has ticked
\* twice since the start reset the duration
C29_Witness ==
  /\ lastEvent = "tick"
  /\ Len(recorders) = 2
  /\ recorders[1].state = "inactive"
  /\ isRecording
  /\ recordingDuration = 2
  /\ intervals = 1

\* C30: after every step the active shot id is null or the id of a shot of the
\* list; an add to the empty list with no shot selected selects the new shot;
\* deleting the selected shot clears the selection; and adding or deleting
\* while another shot is selected leaves the selection as it was.
C30_SelectionAlwaysValid ==
  [][ /\ activeShotId' = 0 \/ \E k \in 1..Len(shots') : shots'[k].id = activeShotId'
      /\ (Len(shots') = Len(shots) + 1 /\ activeShotId = 0)
           => activeShotId' = shots'[Len(shots')].id
      /\ (Len(shots') = Len(shots) + 1 /\ activeShotId # 0)
           => activeShotId' = activeShotId
      /\ ( /\ Len(shots') < Len(shots)
           /\ activeShotId # 0
           /\ \A k \in 1..Len(shots') : shots'[k].id # activeShotId )
           => activeShotId' = 0 ]_vars

\* the selected shot has just been deleted while another shot stays in the
\* list: nothing is selected
C30_Witness ==
  /\ Len(shots) = 1
  /\ activeShotId = 0
  /\ now > Epoch
  /\ shots[1].id > Epoch

====
